---- MODULE Spec2Model ----
(***************************************************************************)
(* A model of the transaction_parser repository: the word clusterer that   *)
(* rebuilds text rows from positioned PDF fragments, the three statement   *)
(* extractors (Cathay-TW, Cathay-US, Schwab) and the parse() loops that    *)
(* run them over a batch of documents.                                     *)
(*                                                                         *)
(* Text encoding.  A line (or a flattened e-mail body) is a tuple of       *)
(* whitespace-separated tokens, which is what " ".join(s.split()) leaves.  *)
(* A token is a tuple of pieces: every digit and every punctuation mark is *)
(* a piece of its own, a run of letters is one piece.  So "1,000" is       *)
(* <<"1", ",", "0", "0", "0">> and "Symbol:" is <<"Symbol", ":">>.         *)
(* The Chinese words of the Cathay statements are written in pinyin:       *)
(*   MaiJin 買進, JiMai_B 集買, XianGuMaiJin 現股買進, MaiChu 賣出,        *)
(*   JiMai_S 集賣, XianGuMaiChu 現股賣出, ChuXi 除息, RongZi 融資,         *)
(*   ZongHeJi 總合計, TaiJiDian 台積電, HongHai 鴻海,                      *)
(*   ChengJiaoRiQi 成交日期, JiaoGeRiQi 交割日期, DaiMa 代碼,              *)
(*   GuPiaoMingCheng 股票名稱.                                             *)
(*                                                                         *)
(* Numbers.  A parsed number is [ok, fl, sg, w, f, sp]: ok is FALSE for    *)
(* Python's None; fl says whether Python holds it as a float; the value is *)
(* sg * (w + f / 10000), ten-thousandths being the finest grain any token  *)
(* of the statements carries; sp is "nan" or "inf" for the floats that are *)
(* no finite number (sg then the sign of the infinity) and "" otherwise.   *)
(* Arithmetic is exact: the rounding of binary floating point is not       *)
(* modelled.                                                               *)
(*                                                                         *)
(* The normalizers of the Schwab extractor (_to_money, _normalize_date,    *)
(* _normalize_symbol) are also run on their own, each on one argument      *)
(* drawn from a set of sample strings (the variable norm).                 *)
(***************************************************************************)
EXTENDS Integers, Sequences, FiniteSets, TLC

VARIABLES cluster, tw, us, sw, batch, norm

vars == <<cluster, tw, us, sw, batch, norm>>

(***************************************************************************)
(* Bounds of the model.                                                    *)
(***************************************************************************)
MaxWords == 3
MaxTop == 5
MaxX == 1

(***************************************************************************)
(* Generic helpers.                                                        *)
(***************************************************************************)
Range(s) == {s[k] : k \in 1..Len(s)}

Abs(x) == IF x < 0 THEN -x ELSE x

RECURSIVE Flatten(_)
Flatten(ss) == IF ss = <<>> THEN <<>> ELSE Head(ss) \o Flatten(Tail(ss))

SeqsUpTo(S, n) == UNION {[1..m -> S] : m \in 0..n}

(***************************************************************************)
(* 1. The word clusterer.                                                  *)
(*    CathayTWTradeParser._extract_lines and                               *)
(*    CathayUSTradeParser._cluster_rows.                                   *)
(*                                                                         *)
(* A fragment is [id, top, x0, text]; id is the fragment's identity (two   *)
(* pdfplumber words with equal fields are still two words).  A row is      *)
(* [y, n, words]; y, the running mean of the members' top, is the exact    *)
(* rational [num, den].                                                    *)
(***************************************************************************)
RowTolTW == 3
YTolNum == 5
YTolDen == 2

Texts == <<"alpha", "beta", "gamma", "delta", "eps", "zeta">>

Tops == 0..MaxTop
Xs == 0..MaxX

\* abs(row["y"] - w["top"]) < 3
WithinTW(y, top) == Abs(y.num - top * y.den) < RowTolTW * y.den

\* abs(row["y"] - w["top"]) <= y_tol, y_tol = 2.5
WithinUS(y, top) == Abs(y.num - top * y.den) * YTolDen <= YTolNum * y.den

Within(variant, y, top) ==
    IF variant = "TW" THEN WithinTW(y, top) ELSE WithinUS(y, top)

\* row["y"] = (row["y"] * row["n"] + w["top"]) / (row["n"] + 1)
RunningMean(y, n, top) ==
    [num |-> y.num * n + top * y.den, den |-> y.den * (n + 1)]

\* The row the inner loop breaks at: the first one, in creation order,
\* within the tolerance; 0 when the loop ends with placed = False.
FirstRowWithin(variant, rows, top) ==
    IF \E r \in 1..Len(rows) : Within(variant, rows[r].y, top)
    THEN CHOOSE r \in 1..Len(rows) :
            /\ Within(variant, rows[r].y, top)
            /\ \A q \in 1..(r - 1) : ~Within(variant, rows[q].y, top)
    ELSE 0

JoinRow(row, w) ==
    [y |-> RunningMean(row.y, row.n, w.top),
     n |-> row.n + 1,
     words |-> Append(row.words, w)]

NewRow(w) == [y |-> [num |-> w.top, den |-> 1], n |-> 1, words |-> <<w>>]

\* PlaceWord without the break of line 170: the fragment joins every row
\* within the tolerance.
PlaceWordNoBreak(variant, rows, w) ==
    IF \E r \in 1..Len(rows) : Within(variant, rows[r].y, w.top)
    THEN [r \in 1..Len(rows) |->
            IF Within(variant, rows[r].y, w.top)
            THEN [y |-> RunningMean(rows[r].y, rows[r].n, w.top),
                  n |-> rows[r].n + 1,
                  words |-> Append(rows[r].words, w)]
            ELSE rows[r]]
    ELSE Append(rows, [y |-> [num |-> w.top, den |-> 1], n |-> 1,
                       words |-> <<w>>])

\* One iteration of "for w in ...": the fragment joins a row or starts one.
PlaceWord(variant, rows, w) ==
    LET r == FirstRowWithin(variant, rows, w.top)
    IN  IF r # 0
        THEN [rows EXCEPT ![r] = JoinRow(rows[r], w)]
        ELSE Append(rows, NewRow(w))

\* sorted(seq, key=...): Python's sort is stable.
RECURSIVE InsertByKey(_, _, _)
InsertByKey(sorted, w, key) ==
    IF sorted = <<>> THEN <<w>>
    ELSE IF Head(sorted)[key] <= w[key]
         THEN <<Head(sorted)>> \o InsertByKey(Tail(sorted), w, key)
         ELSE <<w>> \o sorted

RECURSIVE SortedByKey(_, _)
SortedByKey(ws, key) ==
    IF ws = <<>> THEN <<>>
    ELSE InsertByKey(SortedByKey(SubSeq(ws, 1, Len(ws) - 1), key),
                     ws[Len(ws)], key)

\* The sequence the placing loop iterates: the extractor's order for TW
\* (line 162), sorted(words, key=top) for US (line 196).
IterOrder(variant, words) ==
    IF variant = "TW" THEN words ELSE SortedByKey(words, "top")

\* cells = sorted(row["words"], key=x0)
RowCells(row) == SortedByKey(row.words, "x0")

\* " ".join(text.split()) of " ".join(w["text"] for w in cells): the line's
\* tokens (a fragment's text holds no white space).
RowLine(row) == [c \in 1..Len(row.words) |-> RowCells(row)[c].text]

\* The lines are built from the rows in the order the rows were created.
LinesOfRows(rows) == [r \in 1..Len(rows) |-> RowLine(rows[r])]

RECURSIVE PlaceAll(_, _, _)
PlaceAll(variant, rows, ws) ==
    IF ws = <<>> THEN rows
    ELSE PlaceAll(variant, PlaceWord(variant, rows, Head(ws)), Tail(ws))

\* The rows the clusterer builds from a page's fragment list.
ClusterRows(variant, words) ==
    PlaceAll(variant, <<>>, IterOrder(variant, words))

Fragments(n) ==
    {[k \in 1..n |-> [id |-> k, top |-> f[k][1], x0 |-> f[k][2],
                      text |-> Texts[k]]] : f \in [1..n -> Tops \X Xs]}

ClusterIdle ==
    [pc |-> "idle", variant |-> "TW", words |-> <<>>, order |-> <<>>,
     k |-> 1, rows |-> <<>>, lines |-> <<>>]

ClusterInit ==
    \E variant \in {"TW", "US"}, n \in 1..MaxWords :
        \E ws \in Fragments(n) :
            cluster = [pc |-> "start", variant |-> variant, words |-> ws,
                       order |-> <<>>, k |-> 1, rows |-> <<>>, lines |-> <<>>]

ClusterStart ==
    /\ cluster.pc = "start"
    /\ cluster' = [cluster EXCEPT
                     !.order = IterOrder(cluster.variant, cluster.words),
                     !.pc = "place"]
    /\ UNCHANGED <<tw, us, sw, batch, norm>>

ClusterPlace ==
    /\ cluster.pc = "place"
    /\ cluster.k <= Len(cluster.order)
    /\ cluster' = [cluster EXCEPT
                     !.rows = PlaceWord(cluster.variant, cluster.rows,
                                        cluster.order[cluster.k]),
                     !.k = cluster.k + 1]
    /\ UNCHANGED <<tw, us, sw, batch, norm>>

ClusterEmit ==
    /\ cluster.pc = "place"
    /\ cluster.k > Len(cluster.order)
    /\ cluster' = [cluster EXCEPT
                     !.lines = LinesOfRows(cluster.rows),
                     !.pc = "done"]
    /\ UNCHANGED <<tw, us, sw, batch, norm>>

(***************************************************************************)
(* 2. Characters, tokens and numbers.                                      *)
(***************************************************************************)
Digits == {"0", "1", "2", "3", "4", "5", "6", "7", "8", "9"}

Punct == {",", ".", "-", "+", "/", ":", "$", "(", ")", "*"}

DigitVal(c) ==
    CASE c = "0" -> 0 [] c = "1" -> 1 [] c = "2" -> 2 [] c = "3" -> 3
      [] c = "4" -> 4 [] c = "5" -> 5 [] c = "6" -> 6 [] c = "7" -> 7
      [] c = "8" -> 8 [] c = "9" -> 9

\* \w of the regular expressions: a digit or a run of letters.
IsWord(c) == c \notin Punct

AllIn(s, S) == \A k \in 1..Len(s) : s[k] \in S

\* [\d,]+
IsDigitsCommas(t) == Len(t) > 0 /\ AllIn(t, Digits \cup {","})

\* \d{n}
IsDigitsN(t, n) == Len(t) = n /\ AllIn(t, Digits)

\* The value of a digit string in base ten; 0 for the empty string.
RECURSIVE DigitsVal(_)
DigitsVal(ds) ==
    IF ds = <<>> THEN 0
    ELSE 10 * DigitsVal(SubSeq(ds, 1, Len(ds) - 1)) + DigitVal(ds[Len(ds)])

\* A parsed number [ok, fl, sg, w, f, sp] stands for sg * (w + f / 10000):
\* sg is 1 or -1, w the whole part, f the ten-thousandths; zero has sg = 1;
\* sp is "" for a finite number.
None == [ok |-> FALSE, fl |-> FALSE, sg |-> 1, w |-> 0, f |-> 0, sp |-> ""]

Num(fl, sg, w, f) ==
    [ok |-> TRUE, fl |-> fl, sg |-> IF w = 0 /\ f = 0 THEN 1 ELSE sg,
     w |-> w, f |-> f, sp |-> ""]

IntNum(sg, w) == Num(FALSE, sg, w, 0)

\* The fraction digits of a decimal, in ten-thousandths (digits past the
\* fourth are below the model's grain).
FracVal(fs) ==
    LET f4 == [k \in 1..4 |-> IF k <= Len(fs) THEN fs[k] ELSE "0"]
    IN  DigitsVal(f4)

Remove(t, c) == SelectSeq(t, LAMBDA x : x # c)

IndexOf(t, c) ==
    IF \E k \in 1..Len(t) : t[k] = c
    THEN CHOOSE k \in 1..Len(t) : t[k] = c /\ \A j \in 1..(k - 1) : t[j] # c
    ELSE 0

Signed(t) == Len(t) > 0 /\ t[1] \in {"-", "+"}
Unsigned(t) == IF Signed(t) THEN Tail(t) ELSE t
SignOf(t) == IF Len(t) > 0 /\ t[1] = "-" THEN -1 ELSE 1

\* str.strip(): the white space at both ends removed.
RECURSIVE Strip(_)
Strip(t) ==
    IF t # <<>> /\ t[1] = " " THEN Strip(Tail(t))
    ELSE IF t # <<>> /\ t[Len(t)] = " " THEN Strip(SubSeq(t, 1, Len(t) - 1))
    ELSE t

\* The digits int() and float() read: one digit or more, single underscores
\* allowed between two digits.
IsDigitPart(t) ==
    /\ Len(t) > 0
    /\ \A k \in 1..Len(t) :
          \/ t[k] \in Digits
          \/ /\ t[k] = "_" /\ k > 1 /\ k < Len(t)
             /\ t[k - 1] \in Digits /\ t[k + 1] \in Digits

\* Python's int(s): white space at the ends passed over, a sign, digits.
PyInt(t) ==
    LET body == Unsigned(Strip(t))
    IN  IF IsDigitPart(body)
        THEN IntNum(SignOf(Strip(t)), DigitsVal(Remove(body, "_")))
        ELSE None

\* The spellings float() reads as not-a-number and as infinity (it ignores
\* case; these are the spellings of the samples).
FloatNanWords == {<<"nan">>, <<"NaN">>, <<"NAN">>}
FloatInfWords == {<<"inf">>, <<"Inf">>, <<"INF">>, <<"infinity">>, <<"Infinity">>}

\* A float that is no finite number: kind is "nan" or "inf".
Special(kind, sg) ==
    [ok |-> TRUE, fl |-> TRUE, sg |-> IF kind = "nan" THEN 1 ELSE sg,
     w |-> 0, f |-> 0, sp |-> kind]

RECURSIVE Pow10(_)
Pow10(n) == IF n = 0 THEN 1 ELSE 10 * Pow10(n - 1)

\* The float w + f / 10000 times ten to the power k, to the model's grain;
\* a number of 1 or more overflows to infinity from the power 309 on.
Scaled(sg, w, f, k) ==
    IF k > 308 /\ w > 0 THEN Special("inf", sg)
    ELSE IF k < -8 THEN Num(TRUE, sg, 0, 0)
    ELSE IF k >= 0
    THEN Num(TRUE, sg, ((w * 10000 + f) * Pow10(k)) \div 10000,
             ((w * 10000 + f) * Pow10(k)) % 10000)
    ELSE Num(TRUE, sg, ((w * 10000 + f) \div Pow10(-k)) \div 10000,
             ((w * 10000 + f) \div Pow10(-k)) % 10000)

\* The mantissa of a float literal: digits, or digits with a point before,
\* after or between them.
IsMantissa(ip, fp, dot) ==
    IF dot = 0 THEN IsDigitPart(ip)
    ELSE /\ ip = <<>> \/ IsDigitPart(ip)
         /\ fp = <<>> \/ IsDigitPart(fp)
         /\ Len(ip) + Len(fp) > 0

\* float() of a mantissa and an exponent part (<<>> for none).
FloatOf(sg, ip, fp, dot, ex, hasExp) ==
    IF ~IsMantissa(ip, fp, dot) THEN None
    ELSE IF ~hasExp
    THEN Num(TRUE, sg, DigitsVal(Remove(ip, "_")), FracVal(Remove(fp, "_")))
    ELSE IF ~IsDigitPart(Unsigned(ex)) THEN None
    ELSE Scaled(sg, DigitsVal(Remove(ip, "_")), FracVal(Remove(fp, "_")),
                SignOf(ex) * DigitsVal(Remove(Unsigned(ex), "_")))

FloatParts(sg, mant, ex, hasExp) ==
    FloatOf(sg,
            IF IndexOf(mant, ".") = 0 THEN mant
            ELSE SubSeq(mant, 1, IndexOf(mant, ".") - 1),
            IF IndexOf(mant, ".") = 0 THEN <<>>
            ELSE SubSeq(mant, IndexOf(mant, ".") + 1, Len(mant)),
            IndexOf(mant, "."), ex, hasExp)

FloatBody(sg, body, e) ==
    IF body \in FloatNanWords THEN Special("nan", 1)
    ELSE IF body \in FloatInfWords THEN Special("inf", sg)
    ELSE IF e = 0 THEN FloatParts(sg, body, <<>>, FALSE)
    ELSE FloatParts(sg, SubSeq(body, 1, e - 1),
                    SubSeq(body, e + 1, Len(body)), TRUE)

\* Python's float(s): white space at the ends passed over, a sign, then
\* nan, inf or infinity, or a decimal literal with an optional exponent.
PyFloat(t) ==
    FloatBody(SignOf(Strip(t)), Unsigned(Strip(t)),
              IF IndexOf(Unsigned(Strip(t)), "e") # 0
              THEN IndexOf(Unsigned(Strip(t)), "e")
              ELSE IndexOf(Unsigned(Strip(t)), "E"))

(***************************************************************************)
(* 3. The Cathay-TW extractor: CathayTWTradeParser._parse_single_pdf.      *)
(***************************************************************************)
\* _to_num of a string: commas removed, an int without a point, else a
\* float, None when the conversion raises.
TWToNum(t) ==
    LET str == Remove(t, ",")
    IN  IF IndexOf(str, ".") # 0 THEN PyFloat(str) ELSE PyInt(str)

TW_TRADETYPE_MAP ==
    [tt \in {<<"MaiJin">>, <<"JiMai_B">>, <<"XianGuMaiJin">>,
             <<"MaiChu">>, <<"JiMai_S">>, <<"XianGuMaiChu">>} |->
        IF tt \in {<<"MaiJin">>, <<"JiMai_B">>, <<"XianGuMaiJin">>}
        THEN <<"buy">> ELSE <<"sell">>]

SummaryNames ==
    {<<"ZongHeJi">>, <<"MaiJinZongJi", ":">>, <<"MaiChuZongJi", ":">>}

\* "X" in s: the line holds the marker word.
Contains(line, word) ==
    \E k \in 1..Len(line) : \E j \in 1..Len(line[k]) : line[k][j] = word

\* A position of a token after which \b holds.
BoundaryAfter(t, p) ==
    IsWord(t[p]) # (p < Len(t) /\ IsWord(t[p + 1]))

\* [\d,]+(?:\.\d+)?
IsPrice(t) ==
    LET dot == IndexOf(t, ".")
    IN  IF dot = 0 THEN IsDigitsCommas(t)
        ELSE /\ IsDigitsCommas(SubSeq(t, 1, dot - 1))
             /\ dot < Len(t)
             /\ AllIn(SubSeq(t, dot + 1, Len(t)), Digits)

\* The trade-row pattern of line 104: seven columns, the last one only up to
\* a word boundary; further columns are not looked at.
IsTradeRow(line) ==
    /\ Len(line) >= 7
    /\ IsDigitsCommas(line[3])
    /\ IsPrice(line[4])
    /\ IsDigitsCommas(line[5])
    /\ IsDigitsCommas(line[6])
    /\ \E p \in 1..Len(line[7]) :
          /\ IsDigitsCommas(SubSeq(line[7], 1, p))
          /\ BoundaryAfter(line[7], p)

\* ^\s*(?P<num>-?[\d,]+)\s*$
IsNumLine(line) ==
    /\ Len(line) = 1
    /\ IsDigitsCommas(IF Len(line[1]) > 0 /\ line[1][1] = "-"
                      THEN Tail(line[1]) ELSE line[1])

\* Lines 122-129: the offset k in 1..3 of the first line that is a number
\* line other than "0"; 0 when there is none.
LookaheadOffset(lines, i) ==
    LET hit(k) == /\ i + k <= Len(lines)
                  /\ IsNumLine(lines[i + k])
                  /\ lines[i + k][1] # <<"0">>
    IN  IF \E k \in 1..3 : hit(k)
        THEN CHOOSE k \in 1..3 : hit(k) /\ \A j \in 1..(k - 1) : ~hit(j)
        ELSE 0

\* name_to_code.get(name, name)
MapGet(m, key) == IF key \in DOMAIN m THEN m[key] ELSE key

\* TWSymbol with the market suffix appended whatever the code looks like.
TWSymbolAlwaysSuffix(name_to_code, name) ==
    (IF name \in DOMAIN name_to_code THEN name_to_code[name] ELSE name)
        \o <<".", "TW">>

\* Lines 133-135.
TWSymbol(name_to_code, name) ==
    LET symbol == MapGet(name_to_code, name)
    IN  IF IsDigitsN(symbol, 4) THEN symbol \o <<".", "TW">> ELSE symbol

\* _extract_settlement_date: the second date of the line after the first
\* header line that is followed by a line holding two dates.
DateShape(t) ==
    /\ Len(t) = 10
    /\ AllIn(SubSeq(t, 1, 4), Digits) /\ t[5] = "/"
    /\ AllIn(SubSeq(t, 6, 7), Digits) /\ t[8] = "/"
    /\ AllIn(SubSeq(t, 9, 10), Digits)

TwoDatesAt(line, j) ==
    /\ j + 1 <= Len(line)
    /\ Len(line[j]) >= 10 /\ Len(line[j + 1]) >= 10
    /\ DateShape(SubSeq(line[j], Len(line[j]) - 9, Len(line[j])))
    /\ DateShape(SubSeq(line[j + 1], 1, 10))

NoDate == [ok |-> FALSE, s |-> <<>>]
SomeStr(t) == [ok |-> TRUE, s |-> t]

RECURSIVE SettlementDateFrom(_, _)
SettlementDateFrom(lines, idx) ==
    IF idx > Len(lines) THEN NoDate
    ELSE IF /\ Contains(lines[idx], "ChengJiaoRiQi")
            /\ Contains(lines[idx], "JiaoGeRiQi")
            /\ idx + 1 <= Len(lines)
            /\ \E j \in 1..Len(lines[idx + 1]) : TwoDatesAt(lines[idx + 1], j)
         THEN LET nxt == lines[idx + 1]
                  j == CHOOSE j \in 1..Len(nxt) :
                          /\ TwoDatesAt(nxt, j)
                          /\ \A q \in 1..(j - 1) : ~TwoDatesAt(nxt, q)
              IN  SomeStr(SubSeq(nxt[j + 1], 1, 10))
         ELSE SettlementDateFrom(lines, idx + 1)

ExtractSettlementDate(lines) == SettlementDateFrom(lines, 1)

\* (?P<name>\S+)\b of line 206: the longest prefix of the second token that
\* ends at a word boundary; <<>> when it has none.
NameBeforeBoundary(t) ==
    IF \E p \in 1..Len(t) : BoundaryAfter(t, p)
    THEN SubSeq(t, 1, CHOOSE p \in 1..Len(t) :
                        /\ BoundaryAfter(t, p)
                        /\ \A q \in (p + 1)..Len(t) : ~BoundaryAfter(t, q))
    ELSE <<>>

IsCodeRow(line) ==
    /\ Len(line) >= 2
    /\ IsDigitsN(line[1], 4)
    /\ NameBeforeBoundary(line[2]) # <<>>

\* _extract_code_mapping.
RECURSIVE CodeMappingFrom(_, _, _, _)
CodeMappingFrom(lines, k, in_block, mapping) ==
    IF k > Len(lines) THEN mapping
    ELSE IF Contains(lines[k], "DaiMa") /\ Contains(lines[k], "GuPiaoMingCheng")
         THEN CodeMappingFrom(lines, k + 1, TRUE, mapping)
         ELSE IF ~in_block
              THEN CodeMappingFrom(lines, k + 1, FALSE, mapping)
              ELSE IF \/ lines[k] = <<>>
                      \/ Contains(lines[k], "JiBaoShiZhiZongJi")
                      \/ Contains(lines[k], "LiCaiZiXun")
                   THEN mapping
                   ELSE IF IsCodeRow(lines[k])
                        THEN CodeMappingFrom(lines, k + 1, TRUE,
                               (NameBeforeBoundary(lines[k][2]) :> lines[k][1])
                                   @@ mapping)
                        ELSE CodeMappingFrom(lines, k + 1, TRUE, mapping)

ExtractCodeMapping(lines) == CodeMappingFrom(lines, 1, FALSE, <<>>)

\* The record of lines 137-146.
TWRecord(name_to_code, settle_date, row, rp_val) ==
    [symbol |-> TWSymbol(name_to_code, row[1]),
     trade_type |-> MapGet(TW_TRADETYPE_MAP, row[2]),
     currency |-> <<"TWD">>,
     shares |-> TWToNum(row[3]),
     price |-> TWToNum(row[4]),
     fee |-> TWToNum(row[6]),
     date |-> IF settle_date.ok THEN settle_date ELSE SomeStr(<<>>),
     total |-> rp_val]

\* Lines 118-149 with the `i += 1` of line 149 left out: the cursor stays
\* on the line the lookahead consumed, or on the row.
TWRowStepStaying(lines, name_to_code, settle_date, st) ==
    [st EXCEPT !.i = st.i + LookaheadOffset(lines, st.i)]

\* Lines 118-149 with the `i += k` of line 128 left out: the total is
\* read, and the scan goes on at the line after the row.
TWRowStepRescanning(lines, name_to_code, settle_date, st) ==
    LET s == lines[st.i]
        k == LookaheadOffset(lines, st.i)
        rp_val == IF k = 0 THEN None
                  ELSE TWToNum(lines[st.i + k][1])
        emit == /\ TWToNum(s[3]).ok
                /\ TWToNum(s[4]).ok
                /\ rp_val.ok
    IN  [i |-> st.i + 1,
         trades |-> IF emit
                    THEN Append(st.trades,
                           TWRecord(name_to_code, settle_date, s,
                                    rp_val))
                    ELSE st.trades,
         anchors |-> IF emit THEN Append(st.anchors, st.i)
                     ELSE st.anchors]

\* Lines 118-149: the iteration for a trade row s = lines[st.i] of a
\* recognized trade type that is no summary row.
TWRowStep(lines, name_to_code, settle_date, st) ==
    LET s == lines[st.i]
        k == LookaheadOffset(lines, st.i)
        rp_val == IF k = 0 THEN None
                  ELSE TWToNum(lines[st.i + k][1])
        emit == /\ TWToNum(s[3]).ok
                /\ TWToNum(s[4]).ok
                /\ rp_val.ok
    IN  [i |-> st.i + k + 1,
         trades |-> IF emit
                    THEN Append(st.trades,
                           TWRecord(name_to_code, settle_date, s,
                                    rp_val))
                    ELSE st.trades,
         anchors |-> IF emit THEN Append(st.anchors, st.i)
                     ELSE st.anchors]

\* One iteration of the while loop of lines 100-150 on the scan state
\* st = [i, trades, anchors]; anchors[j] is the line the j-th record was
\* read from (kept for the claims; the program does not hold it).
TWScanStep(lines, name_to_code, settle_date, st) ==
    LET s == lines[st.i]
    IN  IF ~IsTradeRow(s) THEN [st EXCEPT !.i = st.i + 1]
        ELSE IF s[1] \in SummaryNames THEN [st EXCEPT !.i = st.i + 1]
        ELSE IF s[2] \notin DOMAIN TW_TRADETYPE_MAP
             THEN [st EXCEPT !.i = st.i + 1]
        ELSE TWRowStep(lines, name_to_code, settle_date, st)

RECURSIVE TWScanFrom(_, _, _, _)
TWScanFrom(lines, name_to_code, settle_date, st) ==
    IF st.i > Len(lines) THEN st
    ELSE TWScanFrom(lines, name_to_code, settle_date,
                    TWScanStep(lines, name_to_code, settle_date, st))

\* _parse_single_pdf on the lines _extract_lines returned.
TWParseLines(lines) ==
    TWScanFrom(lines, ExtractCodeMapping(lines), ExtractSettlementDate(lines),
               [i |-> 1, trades |-> <<>>, anchors |-> <<>>]).trades

\* Sample lines of a Cathay-TW statement.
N_1000 == <<"1", ",", "0", "0", "0">>
N_580_00 == <<"5", "8", "0", ".", "0", "0">>
N_580000 == <<"5", "8", "0", ",", "0", "0", "0">>
N_58 == <<"5", "8">>
N_0 == <<"0">>
N_2330 == <<"2", "3", "3", "0">>
N_579942 == <<"5", "7", "9", "9", "4", "2">>
D_20250917 == <<"2", "0", "2", "5", "/", "0", "9", "/", "1", "7">>
D_20250919 == <<"2", "0", "2", "5", "/", "0", "9", "/", "1", "9">>

TWRowBuy ==
    <<<<"TaiJiDian">>, <<"MaiJin">>, N_1000, N_580_00, N_580000, N_58, N_0>>
TWRowSell ==
    <<<<"HongHai">>, <<"XianGuMaiChu">>, <<"2", ",", "0", "0", "0">>,
      <<"1", "0", "5">>, <<"2", "1", "0", ",", "0", "0", "0">>,
      <<"2", "9">>, <<"6", "3", "0">>>>
TWRowOtherType ==
    <<<<"TaiJiDian">>, <<"RongZi">>, N_1000, N_580_00, N_580000, N_58, N_0>>
TWRowSummary ==
    <<<<"ZongHeJi">>, <<"MaiJin">>, <<"3", ",", "0", "0", "0">>, N_580_00,
      <<"7", "9", "0", ",", "0", "0", "0">>, <<"8", "7">>, <<"6", "3", "0">>>>
TWRowNoShares ==
    <<<<"HongHai">>, <<"MaiChu">>, <<",">>, <<"1", "0", "5">>, N_0, N_0, N_0>>
TWNumLine == <<N_579942>>
TWZeroLine == <<N_0>>
TWDoubleZeroLine == <<<<"0", "0">>>>
TWCommaLine == <<<<",">>>>
TWTextLine == <<<<"KeHuYingShouFuE">>>>

TWRows == {TWRowBuy, TWRowSell, TWRowOtherType, TWRowSummary, TWRowNoShares}

TWBodyLines ==
    TWRows \cup {TWNumLine, TWZeroLine, TWDoubleZeroLine, TWCommaLine,
                 TWTextLine}

\* What may precede the trade rows: nothing, or the code section and the
\* date header with its dates.
TWDateHeader ==
    << <<<<"ChengJiaoRiQi">>, <<"JiaoGeRiQi">>>>, <<D_20250917, D_20250919>> >>
TWCodeSection ==
    << <<<<"DaiMa">>, <<"GuPiaoMingCheng">>>>,
       <<N_2330, <<"TaiJiDian">>, <<"1", ",", "1", "4", "0">>, <<"7", "5">>,
         <<"8", "5", ",", "5", "0", "0">>, N_0, N_0>> >>
TWPreambles == {<<>>, TWCodeSection \o TWDateHeader}

MaxTWLines == 4

\* The trade rows of a statement and what follows them: a first row and up
\* to MaxTWLines - 1 lines after it, or nothing.
TWBodies ==
    {<<>>} \cup {<<row>> \o rest : row \in TWRows,
                                   rest \in SeqsUpTo(TWBodyLines, MaxTWLines - 1)}

TWDocuments == {pre \o body : pre \in TWPreambles, body \in TWBodies}

TWIdle ==
    [pc |-> "idle", lines |-> <<>>, settle_date |-> NoDate,
     name_to_code |-> <<>>, i |-> 1, trades |-> <<>>, anchors |-> <<>>,
     seen |-> {}, iters |-> 0]

TWInit ==
    \E lines \in TWDocuments : tw = [TWIdle EXCEPT !.pc = "start", !.lines = lines]

\* Lines 94-99: the two auxiliary passes, then the scan starts at line 1.
TWStart ==
    /\ tw.pc = "start"
    /\ tw' = [tw EXCEPT !.settle_date = ExtractSettlementDate(tw.lines),
                        !.name_to_code = ExtractCodeMapping(tw.lines),
                        !.pc = "scan"]
    /\ UNCHANGED <<cluster, us, sw, batch, norm>>

\* One iteration of the while loop; seen collects the lines the loop looked
\* at as s = lines[i] and iters counts the iterations (kept for the claims).
TWScan ==
    /\ tw.pc = "scan"
    /\ tw.i <= Len(tw.lines)
    /\ LET st == TWScanStep(tw.lines, tw.name_to_code, tw.settle_date,
                            [i |-> tw.i, trades |-> tw.trades,
                             anchors |-> tw.anchors])
       IN  tw' = [tw EXCEPT !.i = st.i, !.trades = st.trades,
                            !.anchors = st.anchors,
                            !.seen = tw.seen \cup {tw.i},
                            !.iters = tw.iters + 1]
    /\ UNCHANGED <<cluster, us, sw, batch, norm>>

\* Line 152.
TWReturn ==
    /\ tw.pc = "scan"
    /\ tw.i > Len(tw.lines)
    /\ tw' = [tw EXCEPT !.pc = "done"]
    /\ UNCHANGED <<cluster, us, sw, batch, norm>>

(***************************************************************************)
(* 4. The Cathay-US extractor: CathayUSTradeParser._parse_page and the row *)
(*    parsers.  A string with spaces in it (a product name) is a tuple of  *)
(*    pieces in which " " is a piece.                                      *)
(***************************************************************************)
US_CURRENCIES == {<<"USD">>, <<"TWD">>}

US_TRADETYPE_MAP ==
    [tt \in {<<"MaiJin">>, <<"MaiChu">>, <<"ChuXi">>} |->
        CASE tt = <<"MaiJin">> -> <<"buy">>
          [] tt = <<"MaiChu">> -> <<"sell">>
          [] tt = <<"ChuXi">> -> <<"dividend">>]

\* " ".join(toks)
RECURSIVE JoinSp(_)
JoinSp(toks) ==
    IF toks = <<>> THEN <<>>
    ELSE IF Len(toks) = 1 THEN toks[1]
    ELSE toks[1] \o <<" ">> \o JoinSp(Tail(toks))

\* product_full.split("/", 1)[0] if "/" in product_full else product_full
BeforeSlash(str) ==
    IF IndexOf(str, "/") = 0 THEN str
    ELSE SubSeq(str, 1, IndexOf(str, "/") - 1)

\* ^\d{8}\b at the start of the line (line 103).
StartsWithRef(line) ==
    /\ Len(line) >= 1
    /\ Len(line[1]) >= 8
    /\ AllIn(SubSeq(line[1], 1, 8), Digits)
    /\ BoundaryAfter(line[1], 8)

\* -?[\d,]+(?:\.\d+)? as a whole token.
IsSignedDecimal(t) ==
    IsPrice(IF Len(t) > 0 /\ t[1] = "-" THEN Tail(t) ELSE t)

\* _to_num of the US parser: float() of the string without commas; None for
\* None and for what float() rejects.
USToNum(x) == IF ~x.ok THEN None ELSE PyFloat(Remove(x.s, ","))

\* A raw field of a row: absent (r.get gives its default) or a string.
Absent == [ok |-> FALSE, s |-> <<>>]

\* _parse_rowA; has is FALSE when it returns None.
USParseRowA(line) ==
    IF ~(Len(line) >= 2 /\ IsDigitsN(line[1], 8))
    THEN [has |-> FALSE, Product |-> Absent, Currency |-> Absent,
          Price |-> Absent, ARP |-> Absent]
    ELSE LET toks == Tail(line)
             curs == {c \in 1..Len(toks) : toks[c] \in US_CURRENCIES}
         IN  IF curs = {}
             THEN [has |-> TRUE,
                   Product |-> SomeStr(BeforeSlash(JoinSp(toks))),
                   Currency |-> Absent, Price |-> Absent, ARP |-> Absent]
             ELSE LET cur_idx == CHOOSE c \in curs : \A d \in curs : d <= c
                  IN  [has |-> TRUE,
                       Product |-> SomeStr(BeforeSlash(
                                     JoinSp(SubSeq(toks, 1, cur_idx - 1)))),
                       Currency |-> SomeStr(toks[cur_idx]),
                       Price |-> SomeStr(IF cur_idx + 1 <= Len(toks)
                                         THEN toks[cur_idx + 1] ELSE <<>>),
                       ARP |-> SomeStr(IF cur_idx + 2 <= Len(toks)
                                       THEN toks[cur_idx + 2] ELSE <<>>)]

\* _parse_rowB.  SettlementDate is present with the value None when the row
\* holds no date: isNone tells that apart from an absent key.
USParseRowB(line) ==
    LET dates == {d \in 1..Len(line) : DateShape(line[d])}
        nums == SelectSeq(line, IsSignedDecimal)
        nth(n) == SomeStr(IF Len(nums) >= n THEN nums[n] ELSE <<>>)
    IN  [has |-> TRUE,
         Market |-> SomeStr(IF Len(line) >= 1 THEN line[1] ELSE <<>>),
         TradeType |-> SomeStr(IF Len(line) >= 2 THEN line[2] ELSE <<>>),
         SettlementDate |->
            IF dates = {} THEN [ok |-> FALSE, s |-> <<>>]
            ELSE SomeStr(line[CHOOSE d \in dates : \A e \in dates : e <= d]),
         Shares |-> nth(1), Amount |-> nth(2), HandlingFee |-> nth(3)]

USNoRowB ==
    [has |-> FALSE, Market |-> Absent, TradeType |-> Absent,
     SettlementDate |-> Absent, Shares |-> Absent, Amount |-> Absent,
     HandlingFee |-> Absent]

\* [A-Z]{3} as a whole token: one of the three-capital words of the samples.
IsThreeCapitals(t) == Len(t) = 1 /\ t[1] \in {"USD", "TWD", "HKD", "INC"}

\* _parse_rowC; the caller drops the result.
USParseRowC(line) ==
    LET nums == SelectSeq(line, IsSignedDecimal)
    IN  [ActualCurrency |-> IF Len(line) >= 1 /\ IsThreeCapitals(line[1])
                            THEN line[1] ELSE <<>>,
         ExchangeRate |-> IF Len(nums) >= 1 THEN nums[1] ELSE <<>>,
         Actual |-> IF Len(nums) >= 2 THEN nums[2] ELSE <<>>]

\* r.get(key, "") of a key that may be absent.
GetOrEmpty(field) == IF field.ok THEN field.s ELSE <<>>

\* _project_row of the merged rows A and B.  date is r.get("SettlementDate",
\* ""): "" without a row B, None with a row B that holds no date.
USProjectRow(A, B) ==
    [symbol |-> GetOrEmpty(A.Product),
     trade_type |-> MapGet(US_TRADETYPE_MAP, GetOrEmpty(B.TradeType)),
     currency |-> GetOrEmpty(A.Currency),
     shares |-> USToNum(B.Shares),
     price |-> USToNum(A.Price),
     fee |-> USToNum(B.HandlingFee),
     date |-> IF B.has THEN B.SettlementDate ELSE SomeStr(<<>>),
     total |-> USToNum(A.ARP)]

\* The loop with groups of 2 lines: the cursor moves by 2 after a reference
\* line.
USScanStepByTwo(lines, st) ==
    IF StartsWithRef(lines[st.i])
    THEN [i |-> st.i + 2,
          recs |-> Append(st.recs,
                          USProjectRow(USParseRowA(lines[st.i]),
                                       IF st.i + 1 <= Len(lines)
                                       THEN USParseRowB(lines[st.i + 1])
                                       ELSE USNoRowB)),
          anchors |-> Append(st.anchors, st.i)]
    ELSE [st EXCEPT !.i = st.i + 1]

\* The loop with the third line of a group, when there is one, merged after
\* row B.
USScanStepWithRowC(lines, st) ==
    IF StartsWithRef(lines[st.i])
    THEN [i |-> st.i + 3,
          recs |-> Append(st.recs,
                          USProjectRow(USParseRowA(lines[st.i]),
                                       IF st.i + 2 <= Len(lines)
                                          /\ USParseRowB(lines[st.i + 2]).has
                                       THEN USParseRowB(lines[st.i + 2])
                                       ELSE IF st.i + 1 <= Len(lines)
                                       THEN USParseRowB(lines[st.i + 1])
                                       ELSE USNoRowB)),
          anchors |-> Append(st.anchors, st.i)]
    ELSE [st EXCEPT !.i = st.i + 1]

\* One iteration of the while loop of lines 102-114 on st = [i, recs,
\* anchors].
USScanStep(lines, st) ==
    IF StartsWithRef(lines[st.i])
    THEN LET A == USParseRowA(lines[st.i])
             B == IF st.i + 1 <= Len(lines)
                  THEN USParseRowB(lines[st.i + 1]) ELSE USNoRowB
         IN  [i |-> st.i + 3,
              recs |-> Append(st.recs, USProjectRow(A, B)),
              anchors |-> Append(st.anchors, st.i)]
    ELSE [st EXCEPT !.i = st.i + 1]

RECURSIVE USScanFrom(_, _)
USScanFrom(lines, st) ==
    IF st.i > Len(lines) THEN st ELSE USScanFrom(lines, USScanStep(lines, st))

\* bool(r) of a record: a dict is falsy only when it has no keys.
Truthy(r) == DOMAIN r # {}

\* Line 115.
USKept(recs) == SelectSeq(recs, Truthy)

\* _parse_page on the lines _cluster_rows returned for the page's region.
USParseLines(lines) ==
    USKept(USScanFrom(lines, [i |-> 1, recs |-> <<>>, anchors |-> <<>>]).recs)

\* Sample lines of a Cathay-US statement.
N_12345678 == <<"1", "2", "3", "4", "5", "6", "7", "8">>
N_150_5 == <<"1", "5", "0", ".", "5">>
N_m1505 == <<"-", "1", ",", "5", "0", "5", ".", "0", "0">>
N_1505 == <<"1", ",", "5", "0", "5", ".", "0", "0">>
N_10 == <<"1", "0">>
N_3_5 == <<"3", ".", "5">>

USRowA ==
    <<N_12345678, <<"AAPL", "/", "APPLE">>, <<"INC">>, <<"USD">>, N_150_5,
      N_m1505>>
USRowANoCurrency == <<N_12345678, <<"TSLA">>>>
USRowANoPrice == <<N_12345678, <<"MSFT">>, <<"USD">>>>
USRowARefOnly == <<N_12345678 \o <<"-", "A">>, <<"NVDA">>>>
USRowB == <<<<"US">>, <<"MaiJin">>, N_10, N_1505, N_3_5, D_20250919>>
USRowBNoDate == <<<<"US">>, <<"MaiChu">>, N_10, N_1505, N_3_5>>
USRowBOtherType == <<<<"US">>, <<"PeiGu">>, N_10, D_20250919>>
USRowBDividend == <<<<"US">>, <<"ChuXi">>, N_10, N_1505, N_0, D_20250919>>
USRowC == <<<<"USD">>, <<"1">>, N_1505>>
USTextLine == <<<<"XiaoJi">>>>

USSampleLines ==
    {USRowA, USRowANoCurrency, USRowARefOnly, USRowB, USRowBNoDate,
     USRowBOtherType, USRowC, USTextLine}

MaxUSLines == 4

USDocuments == SeqsUpTo(USSampleLines, MaxUSLines)

USIdle ==
    [pc |-> "idle", lines |-> <<>>, i |-> 1, recs |-> <<>>, anchors |-> <<>>,
     out |-> <<>>, iters |-> 0]

USInit ==
    \E lines \in USDocuments : us = [USIdle EXCEPT !.pc = "scan", !.lines = lines]

\* One iteration of the while loop; iters counts the iterations (kept for
\* the claims).
USScan ==
    /\ us.pc = "scan"
    /\ us.i <= Len(us.lines)
    /\ LET st == USScanStep(us.lines, [i |-> us.i, recs |-> us.recs,
                                       anchors |-> us.anchors])
       IN  us' = [us EXCEPT !.i = st.i, !.recs = st.recs,
                            !.anchors = st.anchors,
                            !.iters = us.iters + 1]
    /\ UNCHANGED <<cluster, tw, sw, batch, norm>>

\* Line 115: the records returned for the page.
USReturn ==
    /\ us.pc = "scan"
    /\ us.i > Len(us.lines)
    /\ us' = [us EXCEPT !.out = USKept(us.recs), !.pc = "done"]
    /\ UNCHANGED <<cluster, tw, sw, batch, norm>>

(***************************************************************************)
(* 5. Arithmetic on parsed numbers (Python floats, exact decimals here).   *)
(***************************************************************************)
MagLeq(a, b) == a.w < b.w \/ (a.w = b.w /\ a.f <= b.f)

\* a + b as a float.
NumAdd(a, b) ==
    IF a.sp = "nan" \/ b.sp = "nan" THEN Special("nan", 1)
    ELSE IF a.sp = "inf" /\ b.sp = "inf"
    THEN (IF a.sg = b.sg THEN a ELSE Special("nan", 1))
    ELSE IF a.sp = "inf" THEN a
    ELSE IF b.sp = "inf" THEN b
    ELSE IF a.sg = b.sg
    THEN Num(TRUE, a.sg, a.w + b.w + ((a.f + b.f) \div 10000),
             (a.f + b.f) % 10000)
    ELSE LET big == IF MagLeq(b, a) THEN a ELSE b
             small == IF MagLeq(b, a) THEN b ELSE a
         IN  IF big.f >= small.f
             THEN Num(TRUE, big.sg, big.w - small.w, big.f - small.f)
             ELSE Num(TRUE, big.sg, big.w - small.w - 1,
                      big.f + 10000 - small.f)

\* -a
NumNeg(a) ==
    IF a.sp # "" THEN Special(a.sp, -a.sg) ELSE Num(a.fl, -a.sg, a.w, a.f)

\* abs(a)
NumAbs(a) == IF a.sp # "" THEN Special(a.sp, 1) ELSE Num(a.fl, 1, a.w, a.f)

NumSub(a, b) == NumAdd(a, NumNeg(b))

\* a > 0 and a < 0; both are false of not-a-number.
NumGt0(a) == a.sg = 1 /\ (a.w > 0 \/ a.f > 0 \/ a.sp = "inf")
NumLt0(a) == a.sg = -1

\* round(a, 2): to the nearest hundredth, a tie to the even one.
NumRound2(a) ==
    IF a.sp # "" THEN a
    ELSE LET cents == a.f \div 100
             rest == a.f % 100
             up == rest > 50 \/ (rest = 50 /\ cents % 2 = 1)
             c == IF up THEN cents + 1 ELSE cents
         IN  Num(TRUE, a.sg, a.w + (c \div 100), (c % 100) * 100)

(***************************************************************************)
(* 6. The Schwab normalizers: _to_money, _to_num, _normalize_date,         *)
(*    _to_occ_symbol, _normalize_symbol.                                   *)
(***************************************************************************)
\* s.startswith("(") and s.endswith(")")
InParens(t) == Len(t) >= 1 /\ t[1] = "(" /\ t[Len(t)] = ")"

\* s[1:-1]
Inner(t) == SubSeq(t, 2, Len(t) - 1)

\* -val if neg else val, None when float() raised.
Negated(neg, val) == IF ~val.ok THEN None ELSE IF neg THEN NumNeg(val) ELSE val

\* SchwabTradeParser._to_num of a string.
SWToNum(t) ==
    Negated(InParens(Strip(t)),
            PyFloat(Remove(IF InParens(Strip(t)) THEN Inner(Strip(t))
                           ELSE Strip(t), ",")))

\* s.upper() == "N/A"
IsNA(t) == t \in {<<"N", "/", "A">>, <<"n", "/", "a">>, <<"N", "/", "a">>,
                  <<"n", "/", "A">>}

\* s.replace("CR", "").replace("DR", "") of a run of letters, for the runs
\* of the samples: the markers are taken out wherever they stand, capitals
\* only.
WithoutMarkers(c) ==
    CASE c \in {"CR", "DR", "DCRR"} -> ""
      [] c = "nanCR" -> "nan"
      [] OTHER -> c

Unmarked(t) == Remove([k \in 1..Len(t) |-> WithoutMarkers(t[k])], "")

\* SchwabTradeParser._to_money of a string.
SWToMoney(t) ==
    IF IsNA(Strip(t)) THEN Num(TRUE, 1, 0, 0)
    ELSE Negated(InParens(Strip(t)),
                 PyFloat(Remove(Remove(Unmarked(
                     IF InParens(Strip(t)) THEN Inner(Strip(t)) ELSE Strip(t)),
                     "$"), ",")))

\* The decimal digits of n, at least width of them.
RECURSIVE DigitsOf(_, _)
DigitsOf(n, width) ==
    LET d == CHOOSE c \in Digits : DigitVal(c) = n % 10
    IN  IF n < 10 /\ width <= 1 THEN <<d>>
        ELSE DigitsOf(n \div 10, width - 1) \o <<d>>

IsLeap(y) == y % 4 = 0 /\ (y % 100 # 0 \/ y % 400 = 0)

DaysInMonth(m, y) ==
    IF m = 2 THEN (IF IsLeap(y) THEN 29 ELSE 28)
    ELSE IF m \in {4, 6, 9, 11} THEN 30 ELSE 31

NoDt == [ok |-> FALSE, year |-> 1, month |-> 1, day |-> 1]

\* datetime(year, month, day); not ok when the constructor raises.
Dt(year, month, day) ==
    IF /\ year \in 1..9999 /\ month \in 1..12
       /\ day >= 1 /\ day <= DaysInMonth(month, year)
    THEN [ok |-> TRUE, year |-> year, month |-> month, day |-> day]
    ELSE NoDt

\* datetime.strptime(s, "%m/%d/%y") for ydigits = 2 and "%m/%d/%Y" for
\* ydigits = 4: month and day of one or two digits (a day of one digit may
\* have a space before it), the year of exactly ydigits digits, nothing left
\* over; not ok when strptime raises.
Strptime(t, ydigits) ==
    LET s1 == IndexOf(t, "/")
        rest == SubSeq(t, s1 + 1, Len(t))
        s2 == IndexOf(rest, "/")
        mm == SubSeq(t, 1, s1 - 1)
        d0 == SubSeq(rest, 1, s2 - 1)
        dd == IF Len(d0) = 2 /\ d0[1] = " " THEN Tail(d0) ELSE d0
        yy == SubSeq(rest, s2 + 1, Len(rest))
    IN  IF /\ s1 # 0 /\ s2 # 0
           /\ Len(mm) \in {1, 2} /\ AllIn(mm, Digits)
           /\ Len(dd) \in {1, 2} /\ AllIn(dd, Digits)
           /\ Len(yy) = ydigits /\ AllIn(yy, Digits)
        THEN Dt(IF ydigits = 2
                THEN (IF DigitsVal(yy) <= 68 THEN 2000 + DigitsVal(yy)
                      ELSE 1900 + DigitsVal(yy))
                ELSE DigitsVal(yy),
                DigitsVal(mm), DigitsVal(dd))
        ELSE NoDt

\* dt.strftime("%Y/%m/%d"); the C library does not pad a year below 1000.
StrftimeYmd(dt) ==
    DigitsOf(dt.year, IF dt.year >= 1000 THEN 4 ELSE 1) \o <<"/">>
        \o DigitsOf(dt.month, 2) \o <<"/">> \o DigitsOf(dt.day, 2)

\* dt.strftime("%y%m%d")
StrftimeYYMMDD(dt) ==
    DigitsOf(dt.year % 100, 2) \o DigitsOf(dt.month, 2) \o DigitsOf(dt.day, 2)

\* Lines 433 and 436 without the century shift of lines 434-435.
NormalizedWithoutShift(t, ydigits) ==
    IF Strptime(t, ydigits).ok
    THEN SomeStr(StrftimeYmd(Strptime(t, ydigits))) ELSE NoDate

\* Lines 433-436 for one format: the string returned, not ok when strptime
\* or replace raises.
NormalizedWith(t, ydigits) ==
    LET dt == Strptime(t, ydigits)
        shifted == IF dt.ok /\ dt.year < 2000
                   THEN Dt(dt.year + 100, dt.month, dt.day) ELSE dt
    IN  IF shifted.ok THEN SomeStr(StrftimeYmd(shifted)) ELSE NoDate

\* Lines 431-439 for the string s, white space at its ends removed.
NormalizeStripped(s) ==
    IF NormalizedWith(s, 2).ok THEN NormalizedWith(s, 2)
    ELSE IF NormalizedWith(s, 4).ok THEN NormalizedWith(s, 4)
    ELSE SomeStr(s)

\* _normalize_date; x is [ok, s], not ok being None.  None and "" give None.
NormalizeDate(x) ==
    IF ~x.ok \/ x.s = <<>> THEN NoDate ELSE NormalizeStripped(Strip(x.s))

\* str.upper() of a piece, for the words of the samples.
Upper(c) ==
    CASE c = "aapl" -> "AAPL" [] c = "p" -> "P" [] c = "c" -> "C"
      [] OTHER -> c

\* round(float(s) * 1000): the nearest integer, a tie to the even one (the
\* product of the two doubles rounds as the decimal does for the strikes of
\* the samples).
StrikeThousandths(val) ==
    LET tenths == val.f % 10
        thou == val.f \div 10
        up == tenths > 5 \/ (tenths = 5 /\ thou % 2 = 1)
    IN  val.w * 1000 + thou + (IF up THEN 1 ELSE 0)

\* _to_occ_symbol; not ok when it returns None.
ToOccSymbol(underlying, expiry, cp, strike) ==
    LET dt == IF Strptime(expiry, 4).ok THEN Strptime(expiry, 4)
              ELSE Strptime(expiry, 2)
        val == PyFloat(Remove(strike, ","))
    IN  IF ~dt.ok \/ ~val.ok THEN Absent
        ELSE SomeStr([k \in 1..Len(underlying) |-> Upper(underlying[k])]
                     \o StrftimeYYMMDD(dt)
                     \o <<Upper(cp[1])>>
                     \o DigitsOf(StrikeThousandths(val), 8))

\* The pieces of the option pattern of line 377.
IsRoot(t) == Len(t) > 0 /\ AllIn(t, {c \in Range(t) : c \notin Punct \/ c \in {".", "-"}})
IsExpiry(t) ==
    LET s1 == IndexOf(t, "/")
        rest == SubSeq(t, s1 + 1, Len(t))
        s2 == IndexOf(rest, "/")
    IN  /\ s1 # 0 /\ s2 # 0
        /\ s1 - 1 \in {1, 2} /\ AllIn(SubSeq(t, 1, s1 - 1), Digits)
        /\ s2 - 1 \in {1, 2} /\ AllIn(SubSeq(rest, 1, s2 - 1), Digits)
        /\ Len(rest) - s2 \in {2, 3, 4}
        /\ AllIn(SubSeq(rest, s2 + 1, Len(rest)), Digits)
IsStrike(t) ==
    LET dot == IndexOf(t, ".")
    IN  IF dot = 0 THEN IsDigitsCommas(t)
        ELSE /\ IsDigitsCommas(SubSeq(t, 1, dot - 1))
             /\ Len(t) - dot \in 1..4
             /\ AllIn(SubSeq(t, dot + 1, Len(t)), Digits)
IsCallPut(t) == t \in {<<"C">>, <<"P">>, <<"c">>, <<"p">>}

\* _normalize_symbol of the tokens of the raw symbol; the result is a string
\* (its tokens joined by single spaces).
NormalizeSymbol(toks) ==
    IF /\ Len(toks) = 4
       /\ IsRoot(toks[1]) /\ IsExpiry(toks[2])
       /\ IsStrike(toks[3]) /\ IsCallPut(toks[4])
       /\ ToOccSymbol(toks[1], toks[2], toks[4], toks[3]).ok
    THEN ToOccSymbol(toks[1], toks[2], toks[4], toks[3]).s
    ELSE JoinSp(toks)

(***************************************************************************)
(* 7. The Schwab extractor: SchwabTradeParser._parse_body.  The flattened  *)
(*    text is the tuple of its whitespace-separated tokens.  The sample    *)
(*    texts hold no markup, so line 168 applies; a word of the samples     *)
(*    never holds a label or a marker as a proper part.                    *)
(***************************************************************************)
\* str.lower() of a piece, for the words of the samples.
Lower(c) ==
    CASE c \in {"Buy", "BUY"} -> "buy"
      [] c = "Bought" -> "bought"
      [] c = "Purchase" -> "purchase"
      [] c \in {"Sold", "SOLD"} -> "sold"
      [] c = "Sell" -> "sell"
      [] c = "Sale" -> "sale"
      [] c = "Quantity" -> "quantity"
      [] c = "Price" -> "price"
      [] c = "Principal" -> "principal"
      [] c = "Charge" -> "charge"
      [] c = "Interest" -> "interest"
      [] c = "Total" -> "total"
      [] c = "Net" -> "net"
      [] c = "Amount" -> "amount"
      [] c = "Commission" -> "commission"
      [] c = "Industry" -> "industry"
      [] c = "Regulatory" -> "regulatory"
      [] c = "Options" -> "options"
      [] c = "Transaction" -> "transaction"
      [] c = "Exchange" -> "exchange"
      [] c = "Fee" -> "fee"
      [] c = "Fees" -> "fees"
      [] c = "Additional" -> "additional"
      [] c = "If" -> "if"
      [] c = "We" -> "we"
      [] c = "Schwab" -> "schwab"
      [] c = "Notice" -> "notice"
      [] c = "All" -> "all"
      [] c = "Thank" -> "thank"
      [] OTHER -> c

Lowered(t) == [k \in 1..Len(t) |-> Lower(t[k])]

StartsWith(t, pre) == Len(t) >= Len(pre) /\ SubSeq(t, 1, Len(pre)) = pre

Min(a, b) == IF a <= b THEN a ELSE b

\* The least and the greatest number of a non-empty set.
MinOf(S) == CHOOSE a \in S : \A b \in S : a <= b
MaxOf(S) == CHOOSE a \in S : \A b \in S : b <= a

\* The phrase (a tuple of tokens) stands in toks from token j on: its last
\* token may be followed by more characters in the same token of the text.
PhraseAt(toks, j, phrase) ==
    /\ j >= 1 /\ j + Len(phrase) - 1 <= Len(toks)
    /\ \A k \in 1..(Len(phrase) - 1) : toks[j + k - 1] = phrase[k]
    /\ StartsWith(toks[j + Len(phrase) - 1], phrase[Len(phrase)])

\* The same, ignoring case (re.I); the phrase is in lower case.
PhraseAtI(toks, j, phrase) ==
    PhraseAt([k \in 1..Len(toks) |-> Lowered(toks[k])], j, phrase)

\* The field labels that end a symbol (line 175).
SymbolEndLabels ==
    {<<<<"Security">>, <<"Description", ":">>>>, <<<<"Action", ":">>>>,
     <<<<"Type", ":">>>>, <<<<"Trade">>, <<"Date", ":">>>>}

LabelAt(toks, j) == \E lab \in SymbolEndLabels : PhraseAt(toks, j, lab)

\* The match of the pattern of line 175 that starts at token k: the tokens
\* of group "sym" and the token the match ends in; has is FALSE without one.
SymbolMatchAt(toks, k) ==
    LET rest == SubSeq(toks[k], 3, Len(toks[k]))
        from == IF rest = <<>> THEN k + 2 ELSE k + 1
        ends == {j \in from..Len(toks) : LabelAt(toks, j)}
    IN  IF ~StartsWith(toks[k], <<"Symbol", ":">>) \/ ends = {}
        THEN [has |-> FALSE, start |-> k, sym |-> <<>>, last |-> k]
        ELSE LET j == MinOf(ends)
                 lab == CHOOSE l \in SymbolEndLabels : PhraseAt(toks, j, l)
             IN  [has |-> TRUE, start |-> k,
                  sym |-> (IF rest = <<>> THEN <<>> ELSE <<rest>>)
                            \o SubSeq(toks, k + 1, j - 1),
                  last |-> j + Len(lab) - 1]

\* re.finditer of lines 174-177 from token k on: the matches, left to
\* right, none overlapping another.
RECURSIVE SymbolMatches(_, _)
SymbolMatchesAfter(toks, k, mt) ==
    IF mt.has THEN <<mt>> \o SymbolMatches(toks, mt.last + 1)
    ELSE SymbolMatches(toks, k + 1)

SymbolMatches(toks, k) ==
    IF k > Len(toks) THEN <<>>
    ELSE SymbolMatchesAfter(toks, k, SymbolMatchAt(toks, k))

WindowChars == 2000

RECURSIVE CharLen(_)
CharLen(t) == IF t = <<>> THEN 0 ELSE Len(Head(t)) + CharLen(Tail(t))

\* The number of characters of tokens k..j joined by single spaces.
RECURSIVE SpanChars(_, _, _)
SpanChars(toks, k, j) ==
    IF j < k THEN 0
    ELSE IF j = k THEN CharLen(toks[k])
    ELSE SpanChars(toks, k, j - 1) + 1 + CharLen(toks[j])

\* Line 181: the text from the start of the match, at most WindowChars
\* characters of it (a token the limit cuts is left out).
Window(toks, k) ==
    IF SpanChars(toks, k, Len(toks)) <= WindowChars
    THEN SubSeq(toks, k, Len(toks))
    ELSE SubSeq(toks, k,
                MaxOf({j \in k..Len(toks) :
                          SpanChars(toks, k, j) <= WindowChars}))

BuyWords == {"purchase", "buy", "bought"}
SellWords == {"sale", "sell", "sold"}

\* \b(word)\b at piece p of token j, ignoring case.
WordAt(w, j, p, words) ==
    /\ Lower(w[j][p]) \in words
    /\ p = 1 \/ ~IsWord(w[j][p - 1])
    /\ p = Len(w[j]) \/ ~IsWord(w[j][p + 1])

WordPositions(w, words) ==
    UNION {{<<j, p>> : p \in {q \in 1..Len(w[j]) : WordAt(w, j, q, words)}} :
               j \in 1..Len(w)}

PosLeq(a, b) == a[1] < b[1] \/ (a[1] = b[1] /\ a[2] <= b[2])

FirstPos(S) == CHOOSE a \in S : \A b \in S : PosLeq(a, b)

\* Lines 192-197 with a buy word deciding wherever it stands.
ActionPreferBuy(mp, ms) ==
    IF mp # {} THEN <<"buy">> ELSE IF ms # {} THEN <<"sell">> ELSE <<>>

\* Lines 192-197 for the matches mp and ms; <<>> stands for None.
ActionOf(mp, ms) ==
    IF mp # {} /\ ms # {}
    THEN (IF PosLeq(FirstPos(ms), FirstPos(mp)) THEN <<"sell">> ELSE <<"buy">>)
    ELSE IF ms # {} THEN <<"sell">>
    ELSE IF mp # {} THEN <<"buy">>
    ELSE <<>>

\* Lines 188-197.
Action(w) == ActionOf(WordPositions(w, BuyWords), WordPositions(w, SellWords))

\* [0-9]{2}/[0-9]{2}/[0-9]{2,4} at the start of t: the text matched, <<>>
\* when there is no match.
DatePrefix(t) ==
    IF /\ Len(t) >= 8
       /\ AllIn(SubSeq(t, 1, 2), Digits) /\ t[3] = "/"
       /\ AllIn(SubSeq(t, 4, 5), Digits) /\ t[6] = "/"
       /\ AllIn(SubSeq(t, 7, 8), Digits)
    THEN SubSeq(t, 1, IF Len(t) >= 9 /\ t[9] \in Digits
                      THEN (IF Len(t) >= 10 /\ t[10] \in Digits THEN 10
                            ELSE 9)
                      ELSE 8)
    ELSE <<>>

\* The characters that follow piece q of token j and the white space after
\* it: the rest of the token, or the next token when the token ends at q.
After(w, j, q) ==
    IF q < Len(w[j]) THEN SubSeq(w[j], q + 1, Len(w[j]))
    ELSE IF j < Len(w) THEN w[j + 1]
    ELSE <<>>

\* _search(window, r"<word> Date:\s*(date)") of lines 199-200.
DateAt(w, j, word) ==
    /\ j + 1 <= Len(w)
    /\ w[j][Len(w[j])] = word
    /\ StartsWith(w[j + 1], <<"Date", ":">>)
    /\ DatePrefix(After(w, j + 1, 2)) # <<>>

FirstDateAt(w, hits) ==
    IF hits = {} THEN Absent
    ELSE SomeStr(DatePrefix(After(w, MinOf(hits) + 1, 2)))

SearchDate(w, word) == FirstDateAt(w, {j \in 1..Len(w) : DateAt(w, j, word)})

\* The length of the run of characters of S that starts at piece p.
RECURSIVE RunLen(_, _, _)
RunLen(t, p, S) ==
    IF p <= Len(t) /\ t[p] \in S THEN 1 + RunLen(t, p + 1, S) ELSE 0

\* (?:\.\d{2,4}) at piece p: the number of characters matched, 0 for none.
DecLen(t, p) ==
    IF p <= Len(t) /\ t[p] = "." /\ RunLen(t, p + 1, Digits) >= 2
    THEN 1 + Min(RunLen(t, p + 1, Digits), 4)
    ELSE 0

At(t, p) == IF p >= 1 /\ p <= Len(t) THEN t[p] ELSE ""

\* The four alternatives of the pattern of line 327 at piece p: the number
\* of characters matched, 0 for none.
\* N/A
TokNA(t, p) == IF At(t, p) = "N" /\ At(t, p + 1) = "/" /\ At(t, p + 2) = "A"
               THEN 3 ELSE 0

\* \([\$\d,]+(?:\.\d{2,4})?\)
TokParen(t, p) ==
    LET r == RunLen(t, p + 1, Digits \cup {"$", ","})
        q == p + 1 + r
        d == RunLen(t, q + 1, Digits)
    IN  IF At(t, p) # "(" \/ r = 0 THEN 0
        ELSE IF At(t, q) = ")" THEN r + 2
        ELSE IF At(t, q) = "." /\ d \in 2..4 /\ At(t, q + 1 + d) = ")"
        THEN r + d + 3
        ELSE 0

\* -?\$[\d,]+\.\d{2,4}
TokDollar(t, p) ==
    LET m == IF At(t, p) = "-" THEN 1 ELSE 0
        r == RunLen(t, p + m + 1, Digits \cup {","})
    IN  IF At(t, p + m) = "$" /\ r > 0 /\ DecLen(t, p + m + 1 + r) > 0
        THEN m + 1 + r + DecLen(t, p + m + 1 + r)
        ELSE 0

\* -?[\d,]+(?:\.\d{2,4})?
TokPlain(t, p) ==
    LET m == IF At(t, p) = "-" THEN 1 ELSE 0
        r == RunLen(t, p + m, Digits \cup {","})
    IN  IF r > 0 THEN m + r + DecLen(t, p + m + r) ELSE 0

TokLen(t, p) ==
    IF TokNA(t, p) > 0 THEN TokNA(t, p)
    ELSE IF TokParen(t, p) > 0 THEN TokParen(t, p)
    ELSE IF TokDollar(t, p) > 0 THEN TokDollar(t, p)
    ELSE TokPlain(t, p)

\* re.findall of line 327 in one token of the tail, from piece p on.
RECURSIVE FindAllIn(_, _)
FindAllIn(t, p) ==
    IF p > Len(t) THEN <<>>
    ELSE IF TokLen(t, p) > 0
    THEN <<SubSeq(t, p, p + TokLen(t, p) - 1)>>
             \o FindAllIn(t, p + TokLen(t, p))
    ELSE FindAllIn(t, p + 1)

\* re.findall of line 327 in the tail.
FindAll(tail) == Flatten([k \in 1..Len(tail) |-> FindAllIn(tail[k], 1)])

\* Lines 312-319, in lower case.
StopMarkers ==
    {<<<<"additional">>, <<"information">>>>,
     <<<<"if">>, <<"you">>, <<"have">>, <<"any">>, <<"questions">>>>,
     <<<<"we">>, <<"will">>, <<"hold">>, <<"this">>>>,
     <<<<"schwab">>, <<"acted">>, <<"as">>, <<"your">>, <<"agent">>>>,
     <<<<"notice", ":">>, <<"all">>, <<"email">>>>,
     <<<<"thank">>, <<"you">>, <<"for">>, <<"investing">>>>}

StopAt(w, j) == \E mk \in StopMarkers : PhraseAtI(w, j, mk)

\* Quantity\s+Price\s+Principal at token h.
HeaderAt(w, h) ==
    /\ h + 2 <= Len(w)
    /\ Lower(w[h][Len(w[h])]) = "quantity"
    /\ Lowered(w[h + 1]) = <<"price">>
    /\ Lower(w[h + 2][1]) = "principal"

\* (Total Amount|Net Amount)\s+ at token a, with something after it.
AmountAt(w, a) ==
    /\ a + 2 <= Len(w)
    /\ Lower(w[a][Len(w[a])]) \in {"total", "net"}
    /\ Lowered(w[a + 1]) = <<"amount">>

\* The tail that starts after the column title at token a and ends
\* before the first stop marker, or with the text.
TailAfter(w, a) ==
    SubSeq(w, a + 2,
           MinOf({j \in (a + 3)..Len(w) : StopAt(w, j)} \cup {Len(w) + 1}) - 1)

RowTailFrom(w, starts) ==
    IF starts = {} THEN [has |-> FALSE, tail |-> <<>>]
    ELSE [has |-> TRUE, tail |-> TailAfter(w, MinOf(starts))]

\* Group "tail" of the pattern of line 321; has is FALSE without a match.
RowTail(w) ==
    RowTailFrom(w, {a \in 1..Len(w) :
                       AmountAt(w, a) /\ \E h \in 1..(a - 3) : HeaderAt(w, h)})

\* Lines 336-340 reading the last token only.
LastTokenMoney(tokens) ==
    IF tokens = <<>> THEN None ELSE SWToMoney(tokens[Len(tokens)])

\* Lines 336-340: the last token that _to_money can read.
RECURSIVE LastMoney(_)
LastMoney(tokens) ==
    IF tokens = <<>> THEN None
    ELSE IF SWToMoney(tokens[Len(tokens)]).ok
    THEN SWToMoney(tokens[Len(tokens)])
    ELSE LastMoney(SubSeq(tokens, 1, Len(tokens) - 1))

NoRowNumbers == [qty |-> None, price |-> None, principal |-> None, total |-> None]

\* Lines 328-341.
RowNumbersOf(tokens) ==
    IF Len(tokens) < 4 THEN NoRowNumbers
    ELSE [qty |-> SWToNum(tokens[1]),
          price |-> SWToMoney(tokens[2]),
          principal |-> SWToMoney(tokens[3]),
          total |-> LastMoney(tokens)]

\* Lines 321-341.
RowNumbersIn(m) ==
    IF ~m.has THEN NoRowNumbers ELSE RowNumbersOf(FindAll(m.tail))

\* _extract_row_numbers.
ExtractRowNumbers(w) ==
    IF w = <<>> THEN NoRowNumbers ELSE RowNumbersIn(RowTail(w))

\* \$?([\d,]+\.\d{2}) at the start of t: group 1, <<>> without a match.
AmountPrefix(t) ==
    LET m == IF At(t, 1) = "$" THEN 1 ELSE 0
        r == RunLen(t, m + 1, Digits \cup {","})
    IN  IF /\ r > 0 /\ At(t, m + r + 1) = "."
           /\ At(t, m + r + 2) \in Digits /\ At(t, m + r + 3) \in Digits
        THEN SubSeq(t, m + 1, m + r + 3)
        ELSE <<>>

\* \$?([\d,]+\.\d2) at the start of t, the pattern line 288 builds: inside
\* the f-string {2} is the number 2, so the pattern asks for one digit and
\* then the character 2.
ComponentAmountPrefix(t) ==
    LET m == IF At(t, 1) = "$" THEN 1 ELSE 0
        r == RunLen(t, m + 1, Digits \cup {","})
    IN  IF /\ r > 0 /\ At(t, m + r + 1) = "."
           /\ At(t, m + r + 2) \in Digits /\ At(t, m + r + 3) = "2"
        THEN SubSeq(t, m + 1, m + r + 3)
        ELSE <<>>

\* Charge and/or Interest at token c.
ChargeAt(w, c) ==
    /\ c + 2 <= Len(w)
    /\ Lower(w[c][Len(w[c])]) = "charge"
    /\ Lowered(w[c + 1]) = <<"and", "/", "or">>
    /\ Lower(w[c + 2][1]) = "interest"

\* Total:\s*\$?([\d,]+\.\d{2}) with Total: at pieces p, p + 1 of token j.
TotalAt(w, j, p) ==
    /\ p + 1 <= Len(w[j])
    /\ Lower(w[j][p]) = "total" /\ w[j][p + 1] = ":"
    /\ AmountPrefix(After(w, j, p + 1)) # <<>>

\* Line 268: group 1 of the first match, <<>> without one.
TotalAmountAt(w, pos) == AmountPrefix(After(w, pos[1], pos[2] + 1))

FirstTotalOf(w, hits) ==
    IF hits = {} THEN <<>> ELSE TotalAmountAt(w, FirstPos(hits))

ExplicitTotal(w) ==
    FirstTotalOf(w,
        UNION {{<<j, p>> : p \in {q \in 1..Len(w[j]) : TotalAt(w, j, q)}} :
                  j \in {x \in 1..Len(w) : \E c \in 1..(x - 3) : ChargeAt(w, c)}})

\* Lines 276-284, in lower case, a label as its words.
FeeLabels ==
    <<<<"commission">>, <<"industry", "fee">>, <<"regulatory", "fee">>,
      <<"options", "regulatory", "fee">>, <<"transaction", "fee">>,
      <<"exchange", "fee">>, <<"fees">>>>

\* The label, its colon and an amount stand at token j: the amount.  The
\* first word of a label of several words ends its token.
LabelAmountFrom(w, j, label, n, lens) ==
    IF /\ lens # {} /\ j + n - 1 <= Len(w)
       /\ \A k \in 2..(n - 1) : Lowered(w[j + k - 1]) = <<label[k]>>
       /\ n > 1 => /\ Lower(At(w[j + n - 1], 1)) = label[n]
                   /\ At(w[j + n - 1], 2) = ":"
    THEN ComponentAmountPrefix(
             After(w, j + n - 1, IF n = 1 THEN MinOf(lens) + 1 ELSE 2))
    ELSE <<>>

LabelAmountAt(w, j, label) ==
    LabelAmountFrom(w, j, label, Len(label),
        {p \in 1..Len(w[j]) :
            /\ Lower(w[j][p]) = label[1]
            /\ IF Len(label) = 1 THEN At(w[j], p + 1) = ":"
               ELSE p = Len(w[j])})

\* The amounts re.finditer of line 288 finds for one label.
LabelAmounts(w, label) ==
    SelectSeq([j \in 1..Len(w) |-> LabelAmountAt(w, j, label)],
              LAMBDA a : a # <<>>)

\* Lines 285-296 with the amounts found: total_fee, None when none is found.
RECURSIVE SumAmounts(_)
SumAmounts(amts) ==
    IF amts = <<>> THEN Num(TRUE, 1, 0, 0)
    ELSE NumAdd(SumAmounts(SubSeq(amts, 1, Len(amts) - 1)),
                PyFloat(Remove(amts[Len(amts)], ",")))

SumOrNone(good) == IF good = <<>> THEN None ELSE SumAmounts(good)

ComponentSum(w) ==
    SumOrNone(SelectSeq(Flatten([l \in 1..Len(FeeLabels) |->
                                    LabelAmounts(w, FeeLabels[l])]),
                        LAMBDA a : PyFloat(Remove(a, ",")).ok))

\* Lines 268-296 with group 1 of the match of line 268, <<>> without one.
FeeFrom(w, m_total) ==
    IF m_total # <<>> /\ PyFloat(Remove(m_total, ",")).ok
    THEN PyFloat(Remove(m_total, ","))
    ELSE ComponentSum(w)

\* _extract_fee_from_window.
ExtractFeeFromWindow(w) == IF w = <<>> THEN None ELSE FeeFrom(w, ExplicitTotal(w))

\* Lines 229-233 without the flip: the amount as it was parsed or derived.
CashSignUnchanged(action, amount) == amount

\* Lines 229-233: a buy is cash out, a sell is cash in.
CashSign(action, amount) ==
    IF amount.ok /\ action # <<>>
    THEN (IF action = <<"buy">> /\ NumGt0(amount) THEN NumNeg(amount)
          ELSE IF action = <<"sell">> /\ NumLt0(amount) THEN NumNeg(amount)
          ELSE amount)
    ELSE amount

\* x or y or "" of line 242, x and y being None or strings.
FirstDate(x, y) ==
    IF x.ok /\ x.s # <<>> THEN x
    ELSE IF y.ok /\ y.s # <<>> THEN y
    ELSE SomeStr(<<>>)

\* Lines 210-215: the fee read from the block, else derived, else None.
FeeOf(rn, fee_from_block) ==
    IF fee_from_block.ok THEN fee_from_block
    ELSE IF rn.principal.ok /\ rn.total.ok
    THEN NumRound2(NumSub(NumAbs(rn.total), NumAbs(rn.principal)))
    ELSE None

\* Lines 219-227: the parsed total, else the principal and the fee.
AmountOf(rn, action, eff_fee) ==
    IF rn.total.ok THEN rn.total
    ELSE IF ~rn.principal.ok THEN None
    ELSE IF action = <<"sell">> THEN NumRound2(NumSub(rn.principal, eff_fee))
    ELSE NumRound2(NumAdd(rn.principal, eff_fee))

\* Line 217 asking for a symbol only.
EmitsSymbolled(sym, rn) == sym # <<>>

\* Line 217: sym and qty is not None and price is not None and (total is
\* not None or principal is not None).
Emits(sym, rn) ==
    /\ sym # <<>> /\ rn.qty.ok /\ rn.price.ok
    /\ (rn.total.ok \/ rn.principal.ok)

\* Lines 217-245 with what lines 179-215 found: whether a record is
\* appended, and the record.
RecordOf(sym, action, trade_date, settle_date, rn, fee_from_block, fee, eff_fee) ==
    [emits |-> Emits(sym, rn),
     action |-> action, rn |-> rn, fee_from_block |-> fee_from_block,
     rec |-> [symbol |-> sym,
              trade_type |-> action,
              currency |-> <<"USD">>,
              shares |-> rn.qty,
              price |-> rn.price,
              fee |-> eff_fee,
              date |-> FirstDate(NormalizeDate(settle_date),
                                 NormalizeDate(trade_date)),
              total |-> CashSign(action, AmountOf(rn, action, eff_fee))]]

WithFee(sym, action, trade_date, settle_date, rn, fee_from_block, fee) ==
    RecordOf(sym, action, trade_date, settle_date, rn, fee_from_block, fee,
             IF fee.ok THEN fee ELSE Num(TRUE, 1, 0, 0))

WithNumbers(sym, action, trade_date, settle_date, rn, fee_from_block) ==
    WithFee(sym, action, trade_date, settle_date, rn, fee_from_block,
            FeeOf(rn, fee_from_block))

\* Lines 184-245 for the window w of a match with group "sym" raw_sym.
ParseWindowOf(w, raw_sym) ==
    WithNumbers(NormalizeSymbol(raw_sym), Action(w), SearchDate(w, "Trade"),
                SearchDate(w, "Settle"), ExtractRowNumbers(w),
                ExtractFeeFromWindow(w))

\* Lines 179-245 for the match mt of the text toks.
ParseWindow(toks, mt) == ParseWindowOf(Window(toks, mt.start), mt.sym)

RecordsOf(pw) == IF pw.emits THEN <<pw.rec>> ELSE <<>>

\* The for loop of lines 178-245 from the k-th match on.
RECURSIVE ParseMatches(_, _, _)
ParseMatches(toks, matches, k) ==
    IF k > Len(matches) THEN <<>>
    ELSE RecordsOf(ParseWindow(toks, matches[k]))
             \o ParseMatches(toks, matches, k + 1)

\* _parse_body of a text without markup.
ParseBody(toks) == ParseMatches(toks, SymbolMatches(toks, 1), 1)

\* Sample texts of a Schwab eConfirm.
W(word) == <<word>>
D_9_6_25 == <<"9", "/", "6", "/", "2", "5">>
D_09_17_25 == <<"0", "9", "/", "1", "7", "/", "2", "5">>
D_09_19_25 == <<"0", "9", "/", "1", "9", "/", "2", "5">>
D_13_45_25 == <<"1", "3", "/", "4", "5", "/", "2", "5">>
D_09_19_1999 == <<"0", "9", "/", "1", "9", "/", "1", "9", "9", "9">>
D_09_19_2025 == <<"0", "9", "/", "1", "9", "/", "2", "0", "2", "5">>
M_150_50 == <<"$", "1", "5", "0", ".", "5", "0">>
M_1505_00 == <<"$", "1", ",", "5", "0", "5", ".", "0", "0">>
M_1505_64 == <<"$", "1", ",", "5", "0", "5", ".", "6", "4">>
M_p1505_67 == <<"(", "$", "1", ",", "5", "0", "5", ".", "6", "7", ")">>
M_0_00 == <<"$", "0", ".", "0", "0">>
M_0_65 == <<"$", "0", ".", "6", "5">>
M_0_62 == <<"$", "0", ".", "6", "2">>
M_0_02 == <<"$", "0", ".", "0", "2">>
M_0_67 == <<"$", "0", ".", "6", "7">>
M_250_00 == <<"$", "2", "5", "0", ".", "0", "0">>
M_249_35 == <<"$", "2", "4", "9", ".", "3", "5">>
M_40_00 == <<"$", "4", "0", ".", "0", "0">>
M_200_00 == <<"$", "2", "0", "0", ".", "0", "0">>
NA == <<"N", "/", "A">>

SWSymbolTok == <<"Symbol", ":">>
SWActionTok == <<"Action", ":">>
SWTradeDate(d) == <<W("Trade"), <<"Date", ":">>, d>>
SWSettleDate(d) == <<W("Settle"), <<"Date", ":">>, d>>
SWHeader ==
    <<W("Quantity"), W("Price"), W("Principal"), W("Charge"),
      <<"and", "/", "or">>, W("Interest"), W("Total"), W("Amount")>>

SWSymbols == {<<W("AAPL")>>, <<W("AAPL"), D_9_6_25, <<"1", "9", "5">>, W("P")>>}

SWActions ==
    {<<W("Buy")>>, <<W("Sold")>>, <<W("Journal")>>,
     <<W("Sell"), W("to"), W("cover"), W("purchase")>>,
     <<W("BUY"), W("to"), W("cover"), W("short"), W("sale")>>}

SWDates ==
    {SWTradeDate(D_09_17_25) \o SWSettleDate(D_09_19_25),
     SWTradeDate(D_09_17_25),
     SWTradeDate(D_09_17_25) \o SWSettleDate(D_13_45_25),
     SWSettleDate(D_09_19_1999),
     <<>>}

SWRows ==
    {SWHeader \o <<N_10, M_150_50, M_1505_00, M_0_00, M_1505_00>>,
     SWHeader \o <<N_10, M_150_50, M_1505_00, <<"Commission", ":">>, M_0_65,
                   W("Industry"), <<"Fee", ":">>, M_0_02, <<"Total", ":">>,
                   M_0_67, M_p1505_67>>,
     SWHeader \o <<N_10, M_150_50, M_1505_00, <<"Commission", ":">>, M_0_62,
                   W("Options"), W("Regulatory"), <<"Fee", ":">>, M_0_02,
                   M_1505_64>>,
     SWHeader \o <<N_10, M_150_50, M_1505_00, <<"Commission", ":">>, M_0_65,
                   W("Industry"), <<"Fee", ":">>, M_0_02, M_p1505_67>>,
     SWHeader \o <<N_10, N_150_5, M_1505_00, NA>>,
     SWHeader \o <<N_10, M_150_50, M_1505_00>>,
     <<>>,
     SWHeader \o <<NA, M_150_50, M_1505_00, M_1505_00>>,
     SWHeader \o <<<<"1">>, M_250_00, M_250_00, M_249_35>>,
     SWHeader \o <<<<"1">>, M_250_00, <<",">>, M_249_35, <<",">>>>}

SWBlock(sym, act, dates, row) ==
    <<SWSymbolTok>> \o sym \o <<SWActionTok>> \o act \o dates \o row

SWBlocks ==
    {SWBlock(<<W("AAPL")>>, act, SWTradeDate(D_09_17_25), row) :
        act \in SWActions, row \in SWRows}
    \cup {SWBlock(sym, <<W("Buy")>>, dates,
                  SWHeader \o <<N_10, M_150_50, M_1505_00, M_0_00, M_1505_00>>) :
             sym \in SWSymbols, dates \in SWDates}

\* What may follow the first trade of a text: a closing phrase, a second
\* trade, a symbol that no field label follows.
SWFollowers ==
    {<<W("Thank"), W("you"), W("for"), W("investing"), W("purchase"),
       D_09_19_25>>,
     SWBlock(<<W("MSFT")>>, <<W("Sold")>>, SWSettleDate(D_09_19_2025),
             SWHeader \o <<<<"5">>, M_40_00, M_200_00, M_0_00, M_200_00>>),
     <<SWSymbolTok, W("TSLA"), N_1505>>}

MaxSWParts == 2

SWTexts ==
    {first \o Flatten(rest) :
        first \in SWBlocks, rest \in SeqsUpTo(SWFollowers, MaxSWParts - 1)}

SWIdle ==
    [pc |-> "idle", text |-> <<>>, matches |-> <<>>, k |-> 1,
     records |-> <<>>, anchors |-> <<>>]

SWInit ==
    \E text \in SWTexts : sw = [SWIdle EXCEPT !.pc = "start", !.text = text]

\* Lines 164-177: the text is flattened and its symbol matches are found.
SWStart ==
    /\ sw.pc = "start"
    /\ sw' = [sw EXCEPT !.matches = SymbolMatches(sw.text, 1), !.pc = "loop"]
    /\ UNCHANGED <<cluster, tw, us, batch, norm>>

\* One iteration of the for loop of lines 178-245; anchors[j] is the match
\* the j-th record was read from (kept for the claims).
SWWindow ==
    /\ sw.pc = "loop"
    /\ sw.k <= Len(sw.matches)
    /\ \E pw \in {ParseWindow(sw.text, sw.matches[sw.k])} :
          sw' = [sw EXCEPT
                   !.records = IF pw.emits THEN Append(@, pw.rec) ELSE @,
                   !.anchors = IF pw.emits THEN Append(@, sw.k) ELSE @,
                   !.k = @ + 1]
    /\ UNCHANGED <<cluster, tw, us, batch, norm>>

\* Line 247.
SWReturn ==
    /\ sw.pc = "loop"
    /\ sw.k > Len(sw.matches)
    /\ sw' = [sw EXCEPT !.pc = "done"]
    /\ UNCHANGED <<cluster, tw, us, batch, norm>>

(***************************************************************************)
(* 8. The parse() loops.  A Cathay file is [kind, pages]: kind "pdf" for a *)
(*    file pdfplumber reads, "broken" for a .pdf it raises on, "other" for *)
(*    a file whose name does not end in .pdf; a page is [header, lines],   *)
(*    header telling whether the page holds the TradeReference header (a   *)
(*    Cathay-TW file is read as one page).  A Schwab message is            *)
(*    [kind, text]: kind "nobody" for a message without a text body.       *)
(*    origins[j] is <<file, page, anchor>> of the j-th row (kept for the   *)
(*    claims).                                                             *)
(***************************************************************************)
\* all_rows.extend(rows) with the rows put in front.
PrependRows(all_rows, rows) == rows \o all_rows

\* all_rows.extend(rows)
ExtendRows(all_rows, rows) == all_rows \o rows

\* CathayTWTradeParser._parse_single_pdf of a readable file: the records and
\* the lines they were read from.
TWParseSinglePdf(file) ==
    TWScanFrom(file.pages[1].lines, ExtractCodeMapping(file.pages[1].lines),
               ExtractSettlementDate(file.pages[1].lines),
               [i |-> 1, trades |-> <<>>, anchors |-> <<>>])

\* CathayUSTradeParser._parse_page up to line 115: the scan of the page,
\* nothing when the page has no header.
USParsePage(page) ==
    IF ~page.header THEN [i |-> 1, recs |-> <<>>, anchors |-> <<>>]
    ELSE USScanFrom(page.lines, [i |-> 1, recs |-> <<>>, anchors |-> <<>>])

USKeptIndexes(recs) == {j \in 1..Len(recs) : Truthy(recs[j])}

\* The anchors of the records line 115 keeps.
USKeptAnchors(st) ==
    SelectSeq(st.anchors, LAMBDA a : \E j \in USKeptIndexes(st.recs) :
                                        st.anchors[j] = a)

\* CathayUSTradeParser._parse_single_pdf of a readable file, page by page.
RECURSIVE USParseSinglePdf(_, _)
USParseSinglePdf(file, p) ==
    IF p > Len(file.pages) THEN <<>>
    ELSE USKept(USParsePage(file.pages[p]).recs) \o USParseSinglePdf(file, p + 1)

RECURSIVE USPdfOrigins(_, _)
USPdfOrigins(file, p) ==
    IF p > Len(file.pages) THEN <<>>
    ELSE [j \in 1..Len(USKeptAnchors(USParsePage(file.pages[p]))) |->
             <<p, USKeptAnchors(USParsePage(file.pages[p]))[j]>>]
         \o USPdfOrigins(file, p + 1)

\* The matches of a Schwab text that give a record.
SWEmitting(toks, matches) ==
    SelectSeq(matches, LAMBDA mt : ParseWindow(toks, mt).emits)

\* Sample batches.
Pdf(pages) == [kind |-> "pdf", pages |-> pages]
Page(lines) == [header |-> TRUE, lines |-> lines]
OtherFile == [kind |-> "other", pages |-> <<>>]
BrokenPdf == [kind |-> "broken", pages |-> <<>>]

TWFiles ==
    {Pdf(<<Page(TWCodeSection \o TWDateHeader
                  \o <<TWRowBuy, TWTextLine, TWNumLine>>)>>),
     Pdf(<<Page(<<TWRowSell, TWNumLine, TWRowBuy, TWZeroLine, TWNumLine>>)>>),
     Pdf(<<Page(<<TWRowNoShares, TWNumLine, TWTextLine>>)>>),
     OtherFile, BrokenPdf}

USFiles ==
    {Pdf(<<Page(<<USRowA, USRowB, USRowC>>)>>),
     Pdf(<<Page(<<USRowA, USRowBDividend, USRowC, USRowA, USRowBOtherType>>),
           Page(<<USRowANoCurrency, USTextLine>>)>>),
     Pdf(<<Page(<<USRowA, USRowBNoDate>>),
           [header |-> FALSE, lines |-> <<USRowA, USRowB, USRowC>>]>>),
     OtherFile, BrokenPdf}

Message(text) == [kind |-> "body", text |-> text]
NoBodyMessage == [kind |-> "nobody", text |-> <<>>]

SWMessages ==
    {Message(SWBlock(<<W("AAPL")>>, <<W("Buy")>>,
                     SWTradeDate(D_09_17_25) \o SWSettleDate(D_09_19_25),
                     SWHeader \o <<N_10, M_150_50, M_1505_00, M_0_00,
                                   M_1505_00>>)),
     Message(SWBlock(<<W("AAPL"), D_9_6_25, <<"1", "9", "5">>, W("P")>>,
                     <<W("Sold")>>, SWSettleDate(D_13_45_25),
                     SWHeader \o <<<<"1">>, M_250_00, M_250_00, M_249_35>>)
             \o SWBlock(<<W("MSFT")>>, <<W("Journal")>>, <<>>,
                        SWHeader \o <<<<"5">>, M_40_00, M_200_00, M_0_00,
                                      M_200_00>>)),
     Message(SWBlock(<<W("AAPL")>>, <<W("Buy")>>, <<>>,
                     SWHeader \o <<N_10, M_150_50, M_1505_00>>)),
     NoBodyMessage}

MaxDocs == 2

BatchIdle ==
    [pc |-> "idle", parser |-> "TW", docs |-> <<>>, d |-> 1,
     all_rows |-> <<>>, origins |-> <<>>, ret |-> <<>>]

BatchInit ==
    \/ \E docs \in SeqsUpTo(TWFiles, MaxDocs) :
          batch = [BatchIdle EXCEPT !.pc = "loop", !.parser = "TW",
                                    !.docs = docs]
    \/ \E docs \in SeqsUpTo(USFiles, MaxDocs) :
          batch = [BatchIdle EXCEPT !.pc = "loop", !.parser = "US",
                                    !.docs = docs]
    \/ \E docs \in SeqsUpTo(SWMessages, MaxDocs) :
          batch = [BatchIdle EXCEPT !.pc = "loop", !.parser = "Schwab",
                                    !.docs = docs]

\* The origins of the rows of file d, read at the given anchors of page 1.
OriginsOf(d, anchors) == [j \in 1..Len(anchors) |-> <<d, 1, anchors[j]>>]

\* CathayTWTradeParser.parse, one iteration of the loop of lines 78-84: a
\* file that is no .pdf is passed over, a failure of _parse_single_pdf is
\* caught and reported.
TWParseFile ==
    /\ batch.pc = "loop" /\ batch.parser = "TW"
    /\ batch.d <= Len(batch.docs)
    /\ \E file \in {batch.docs[batch.d]} :
          IF file.kind = "pdf"
          THEN \E st \in {TWParseSinglePdf(file)} :
                  batch' = [batch EXCEPT
                              !.all_rows = ExtendRows(@, st.trades),
                              !.origins = @ \o OriginsOf(batch.d, st.anchors),
                              !.d = @ + 1]
          ELSE batch' = [batch EXCEPT !.d = @ + 1]
    /\ UNCHANGED <<cluster, tw, us, sw, norm>>

\* CathayTWTradeParser.parse, line 90.
TWParseReturn ==
    /\ batch.pc = "loop" /\ batch.parser = "TW"
    /\ batch.d > Len(batch.docs)
    /\ batch' = [batch EXCEPT !.pc = "done", !.ret = batch.all_rows]
    /\ UNCHANGED <<cluster, tw, us, sw, norm>>

\* CathayUSTradeParser.parse, one iteration of the loop of lines 59-63: a
\* file that is no .pdf is passed over; nothing catches a failure of
\* _parse_single_pdf, which leaves parse() as an exception.
USParseFile ==
    /\ batch.pc = "loop" /\ batch.parser = "US"
    /\ batch.d <= Len(batch.docs)
    /\ \E file \in {batch.docs[batch.d]} :
          IF file.kind = "pdf"
          THEN batch' = [batch EXCEPT
                           !.all_rows = ExtendRows(@, USParseSinglePdf(file, 1)),
                           !.origins = @ \o
                               [j \in 1..Len(USPdfOrigins(file, 1)) |->
                                   <<batch.d>> \o USPdfOrigins(file, 1)[j]],
                           !.d = @ + 1]
          ELSE IF file.kind = "broken"
          THEN batch' = [batch EXCEPT !.pc = "raised"]
          ELSE batch' = [batch EXCEPT !.d = @ + 1]
    /\ UNCHANGED <<cluster, tw, us, sw, norm>>

\* CathayUSTradeParser.parse, line 71.
USParseReturn ==
    /\ batch.pc = "loop" /\ batch.parser = "US"
    /\ batch.d > Len(batch.docs)
    /\ batch' = [batch EXCEPT !.pc = "done", !.ret = batch.all_rows]
    /\ UNCHANGED <<cluster, tw, us, sw, norm>>

\* SchwabTradeParser.parse, one iteration of the loop of lines 53-79: a
\* message without a body is saved raw and passed over.
SWParseMessage ==
    /\ batch.pc = "loop" /\ batch.parser = "Schwab"
    /\ batch.d <= Len(batch.docs)
    /\ \E msg \in {batch.docs[batch.d]} :
          IF msg.kind = "body"
          THEN \E ms \in {SWEmitting(msg.text, SymbolMatches(msg.text, 1))} :
                  batch' = [batch EXCEPT
                              !.all_rows = ExtendRows(@, ParseBody(msg.text)),
                              !.origins = @ \o
                                  [j \in 1..Len(ms) |->
                                      <<batch.d, 1, ms[j].start>>],
                              !.d = @ + 1]
          ELSE batch' = [batch EXCEPT !.d = @ + 1]
    /\ UNCHANGED <<cluster, tw, us, sw, norm>>

\* SchwabTradeParser.parse, line 87.
SWParseReturn ==
    /\ batch.pc = "loop" /\ batch.parser = "Schwab"
    /\ batch.d > Len(batch.docs)
    /\ batch' = [batch EXCEPT !.pc = "done", !.ret = batch.all_rows]
    /\ UNCHANGED <<cluster, tw, us, sw, norm>>


(***************************************************************************)
(* 9. Calls of the Schwab normalizers on their own: _to_money,             *)
(*    _normalize_date and _normalize_symbol applied to one argument.       *)
(***************************************************************************)
\* Sample money tokens: a body of digits with an optional sign or currency
\* symbol before it and an optional marker after it, bare and in
\* parentheses, and tokens that are no such numeral.
MoneyBodies ==
    {<<"1", ",", "2", "3", "4", ".", "5", "0">>, <<"1", "5", "0", "5", ".", "6", "7">>,
     <<"0", ".", "0", "0">>, <<"5">>, <<"1", ",", ",", "2">>, <<".", "5">>,
     <<"5", ".">>}
MoneyPrefixes == {<<>>, <<"$">>, <<"-">>, <<"-", "$">>, <<"$", "-">>, <<"+">>}
MoneySuffixes == {<<>>, <<"CR">>, <<"DR">>}

MoneyWords ==
    {NA, <<"n", "/", "a">>, <<"nan">>, <<"NaN">>, <<"inf">>, <<"Infinity">>,
     <<"-", "inf">>, <<"abc">>, <<>>, <<"(", ")">>, <<"(", "N", "/", "A", ")">>,
     <<"CR">>, <<"1", "e", "3">>, <<"1", "E", "-", "2">>, <<"1", "_", "0">>,
     <<"1", "e", "4", "0", "0">>, <<"1", ".", "2", ".", "3">>, <<"-", "-", "5">>,
     <<"(", "5">>, <<"5", ")">>, <<" ", "5", " ">>, <<"DCRR", "5">>,
     <<"nanCR">>, <<"-">>, <<"$">>, <<",">>, <<"(", "nan", ")">>,
     <<"(", " ", "5", " ", ")">>, <<"5", " ", "DR">>}

MoneyTokens ==
    {pre \o body \o suf :
        pre \in MoneyPrefixes, body \in MoneyBodies, suf \in MoneySuffixes}
    \cup {<<"(">> \o pre \o body \o suf \o <<")">> :
             pre \in MoneyPrefixes, body \in MoneyBodies, suf \in MoneySuffixes}
    \cup MoneyWords

\* Sample dates: month, day and year parts joined by slashes, and strings
\* of another make; None is an argument too.
DateMonths ==
    {<<"9">>, <<"0", "9">>, <<"2">>, <<"0", "2">>, <<"1", "2">>, <<"1", "3">>,
     <<"0">>, <<"0", "0">>}
DateDays ==
    {<<"6">>, <<"0", "6">>, <<"2", "9">>, <<"3", "0">>, <<"3", "1">>,
     <<"4", "5">>, <<"0">>, <<" ", "6">>}
DateYears ==
    {<<"0", "0">>, <<"2", "4">>, <<"2", "5">>, <<"6", "8">>, <<"6", "9">>,
     <<"9", "9">>, <<"1", "9", "9", "9">>, <<"2", "0", "0", "0">>,
     <<"2", "0", "2", "4">>, <<"2", "0", "2", "5">>, <<"1", "6", "0", "0">>,
     <<"0", "8", "5", "0">>, <<"9", "9", "5", "0">>, <<"0", "0", "0", "0">>,
     <<"1", "2", "5">>}
DateOthers ==
    {<<>>, <<" ">>, <<"abc">>,
     <<"0", "9", "-", "1", "9", "-", "2", "5">>,
     <<" ", "1", "3", "/", "4", "5", "/", "2", "5", " ">>,
     <<" ", "9", "/", "6", "/", "2", "5">>,
     <<"9", "/", "6", "/", "2", "5", "/", "1">>}

DateArgs ==
    {SomeStr(m \o <<"/">> \o d \o <<"/">> \o y) :
        m \in DateMonths, d \in DateDays, y \in DateYears}
    \cup {SomeStr(t) : t \in DateOthers}
    \cup {NoDate}

\* Sample symbol descriptions: root, expiry, strike and call/put letter,
\* and descriptions of another make.
SymbolRoots == {<<"AAPL">>, <<"aapl">>, <<"BRK", ".", "B">>}
SymbolExpiries ==
    {D_9_6_25, D_09_19_2025, D_13_45_25, D_09_19_1999,
     <<"9", "/", "6", "/", "1", "2", "5">>,
     <<"0", "2", "/", "2", "9", "/", "2", "4">>}
SymbolStrikes ==
    {<<"1", "9", "5">>, <<"7", "7", ".", "0", "0">>, <<"1", "9", "5", ".", "5">>,
     <<"1", ",", "0", "0", "0">>, <<"1", "0", "0", ",", "0", "0", "0">>,
     <<"9", "9", ",", "9", "9", "9", ".", "9", "9", "9", "9">>,
     <<"1", "9", "5", ".", "0", "0", "1", "5">>, <<",">>,
     <<"0", ".", "0", "0", "0", "5">>, <<"1", ",", "9", ",", "5">>,
     <<"1", "9", "5", ".", "1", "2", "3", "4", "5">>}
SymbolLetters == {<<"C">>, <<"P">>, <<"c">>, <<"p">>, <<"X">>}
SymbolOthers ==
    {<<W("AAPL")>>, <<W("APPLE"), W("INC")>>,
     <<W("AAPL"), D_9_6_25, <<"1", "9", "5">>>>,
     <<W("AAPL"), D_9_6_25, <<"1", "9", "5">>, W("P"), W("X")>>}

SymbolArgs ==
    {<<r, e, k, l>> : r \in SymbolRoots, e \in SymbolExpiries,
                      k \in SymbolStrikes, l \in SymbolLetters}
    \cup SymbolOthers

NormIdle ==
    [pc |-> "idle", fn |-> "", arg |-> <<>>, money |-> None, date |-> NoDate,
     symbol |-> <<>>]

NormInit ==
    \/ \E t \in MoneyTokens :
          norm = [NormIdle EXCEPT !.pc = "call", !.fn = "to_money", !.arg = t]
    \/ \E x \in DateArgs :
          norm = [NormIdle EXCEPT !.pc = "call", !.fn = "normalize_date",
                                  !.arg = x]
    \/ \E toks \in SymbolArgs :
          norm = [NormIdle EXCEPT !.pc = "call", !.fn = "normalize_symbol",
                                  !.arg = toks]

\* SchwabTradeParser._to_money(arg)
ToMoneyCall ==
    /\ norm.pc = "call" /\ norm.fn = "to_money"
    /\ norm' = [norm EXCEPT !.money = SWToMoney(norm.arg), !.pc = "done"]
    /\ UNCHANGED <<cluster, tw, us, sw, batch>>

\* SchwabTradeParser._normalize_date(arg)
NormalizeDateCall ==
    /\ norm.pc = "call" /\ norm.fn = "normalize_date"
    /\ norm' = [norm EXCEPT !.date = NormalizeDate(norm.arg), !.pc = "done"]
    /\ UNCHANGED <<cluster, tw, us, sw, batch>>

\* SchwabTradeParser._normalize_symbol(arg)
NormalizeSymbolCall ==
    /\ norm.pc = "call" /\ norm.fn = "normalize_symbol"
    /\ norm' = [norm EXCEPT !.symbol = NormalizeSymbol(norm.arg), !.pc = "done"]
    /\ UNCHANGED <<cluster, tw, us, sw, batch>>

InitCluster ==
    /\ ClusterInit
    /\ tw = TWIdle /\ us = USIdle /\ sw = SWIdle /\ batch = BatchIdle
    /\ norm = NormIdle

NextCluster == ClusterStart \/ ClusterPlace \/ ClusterEmit

SpecCluster == InitCluster /\ [][NextCluster]_vars

(***************************************************************************)
(* Claims about the clusterer.                                             *)
(***************************************************************************)
Ids(ws) == {ws[j].id : j \in 1..Len(ws)}

\* Row membership: the set of the rows' member sets.
Membership(rows) == {Ids(rows[r].words) : r \in 1..Len(rows)}

PermsOf(ws) ==
    {[k \in 1..Len(ws) |-> ws[p[k]]] : p \in Permutations(1..Len(ws))}

RatLeq(a, b) == a.num * b.den <= b.num * a.den

\* C5: for every permutation of the page's fragment list the clusterer
\* builds the same row membership as it built for the list as given.
C5_ClusteringDeterminism ==
    cluster.pc = "done" =>
        \A ws \in PermsOf(cluster.words) :
            Membership(ClusterRows(cluster.variant, ws))
                = Membership(cluster.rows)

\* C6: the lines come out in non-decreasing order of their rows' vertical
\* position, and within a line the texts are in non-decreasing x0 order.
C6_RowOrdering ==
    cluster.pc = "done" =>
        /\ Len(cluster.lines) = Len(cluster.rows)
        /\ \A r, q \in 1..Len(cluster.rows) :
              r < q => RatLeq(cluster.rows[r].y, cluster.rows[q].y)
        /\ \A r \in 1..Len(cluster.lines) :
              \A c, d \in 1..Len(cluster.lines[r]) :
                c < d =>
                  \E w1, w2 \in Range(cluster.rows[r].words) :
                    /\ w1.text = cluster.lines[r][c]
                    /\ w2.text = cluster.lines[r][d]
                    /\ w1.x0 <= w2.x0

\* C7: the rows are pairwise disjoint, together they hold exactly the
\* fragments placed so far (all of the input once the loop has ended), and
\* each row's n is the number of its members.
C7_ExclusiveMembership ==
    cluster.pc \in {"place", "done"} =>
        LET rows == cluster.rows
            placed == SubSeq(cluster.order, 1, cluster.k - 1)
        IN  /\ \A r, q \in 1..Len(rows) :
                  r # q => Ids(rows[r].words) \cap Ids(rows[q].words) = {}
            /\ UNION Membership(rows) = Ids(placed)
            /\ \A r \in 1..Len(rows) :
                  /\ rows[r].n = Len(rows[r].words)
                  /\ rows[r].n = Cardinality(Ids(rows[r].words))
            /\ cluster.pc = "done" => Ids(placed) = Ids(cluster.words)

\* A page of three fragments clustered into a row of two and a row of one,
\* the third fragment being within the tolerance of the first one's top.
C7_Witness ==
    /\ cluster.pc = "done"
    /\ Len(cluster.words) = 3
    /\ Len(cluster.rows) = 2
    /\ cluster.rows[1].n = 2
    /\ Abs(cluster.words[3].top - cluster.words[1].top) < 2

InitTW ==
    /\ TWInit
    /\ cluster = ClusterIdle /\ us = USIdle /\ sw = SWIdle /\ batch = BatchIdle
    /\ norm = NormIdle

NextTW == TWStart \/ TWScan \/ TWReturn

SpecTW == InitTW /\ [][NextTW]_vars

InitUS ==
    /\ USInit
    /\ cluster = ClusterIdle /\ tw = TWIdle /\ sw = SWIdle /\ batch = BatchIdle
    /\ norm = NormIdle

NextUS == USScan \/ USReturn

SpecUS == InitUS /\ [][NextUS]_vars

InitSchwab ==
    /\ SWInit
    /\ cluster = ClusterIdle /\ tw = TWIdle /\ us = USIdle /\ batch = BatchIdle
    /\ norm = NormIdle

NextSchwab == SWStart \/ SWWindow \/ SWReturn

SpecSchwab == InitSchwab /\ [][NextSchwab]_vars

\* The two line scans on their own.  A scan is called on a line sequence,
\* the Cathay-TW scan of a document or the Cathay-US scan of a page, and
\* runs until its loop condition fails, which is what the weak fairness
\* says.
MaxScanLines == 4

ScanTWLines ==
    {TWRowBuy, TWRowSummary, TWRowOtherType, TWNumLine, TWZeroLine, TWTextLine}

ScanUSLines == {USRowA, USRowB, USRowC, USTextLine}

InitScan ==
    /\ tw = TWIdle /\ us = USIdle
    /\ cluster = ClusterIdle /\ sw = SWIdle /\ batch = BatchIdle
    /\ norm = NormIdle

\* _parse_single_pdf is called; its lines are those _extract_lines returns.
TWScanCall ==
    /\ tw.pc = "idle" /\ us.pc = "idle"
    /\ \E lines \in SeqsUpTo(ScanTWLines, MaxScanLines) :
          tw' = [tw EXCEPT !.pc = "start", !.lines = lines]
    /\ UNCHANGED <<cluster, us, sw, batch, norm>>

\* _parse_page is called; its lines are those _cluster_rows returns.
USScanCall ==
    /\ tw.pc = "idle" /\ us.pc = "idle"
    /\ \E lines \in SeqsUpTo(ScanUSLines, MaxScanLines) :
          us' = [us EXCEPT !.pc = "scan", !.lines = lines]
    /\ UNCHANGED <<cluster, tw, sw, batch, norm>>

NextScan ==
    \/ TWScanCall \/ TWStart \/ TWScan \/ TWReturn
    \/ USScanCall \/ USScan \/ USReturn

\* The conditions of the two while loops (TW line 100, US line 102): an
\* iteration is possible exactly when the cursor is inside the lines.
TWLoopCondition == tw.pc = "scan" /\ tw.i <= Len(tw.lines)
USLoopCondition == us.pc = "scan" /\ us.i <= Len(us.lines)

\* A call that has started runs on: Python executes the next statement of a
\* running function, so every step of a scan is weakly fair.  For the two
\* loop bodies WF_vars is written out with the loop condition in the place
\* of ENABLED <<TWScan>>_vars and ENABLED <<USScan>>_vars (both steps change
\* iters, and nothing but the loop condition guards them).
ScanFairness ==
    /\ WF_vars(TWStart) /\ WF_vars(TWReturn) /\ WF_vars(USReturn)
    /\ ([]<>(~TWLoopCondition) \/ []<><<TWScan>>_vars)
    /\ ([]<>(~USLoopCondition) \/ []<><<USScan>>_vars)

SpecScan == InitScan /\ [][NextScan]_vars /\ ScanFairness

InitNormalize ==
    /\ NormInit
    /\ cluster = ClusterIdle /\ tw = TWIdle /\ us = USIdle /\ sw = SWIdle
    /\ batch = BatchIdle

NextNormalize == ToMoneyCall \/ NormalizeDateCall \/ NormalizeSymbolCall

SpecNormalize == InitNormalize /\ [][NextNormalize]_vars

Init ==
    /\ BatchInit
    /\ cluster = ClusterIdle /\ tw = TWIdle /\ us = USIdle /\ sw = SWIdle
    /\ norm = NormIdle

Next ==
    \/ TWParseFile \/ TWParseReturn
    \/ USParseFile \/ USParseReturn
    \/ SWParseMessage \/ SWParseReturn

Spec == Init /\ [][Next]_vars

(***************************************************************************)
(* Claims about the Cathay-TW extractor.                                   *)
(***************************************************************************)
TWRecognized(line) == IsTradeRow(line) /\ line[2] \in DOMAIN TW_TRADETYPE_MAP

\* The offset of the first standalone number line among the next 3 lines
\* that parses to a number; 0 when there is none.
TWFirstNumber(lines, i) ==
    LET hit(k) == /\ i + k <= Len(lines)
                  /\ IsNumLine(lines[i + k])
                  /\ TWToNum(lines[i + k][1]).ok
    IN  IF \E k \in 1..3 : hit(k)
        THEN CHOOSE k \in 1..3 : hit(k) /\ \A j \in 1..(k - 1) : ~hit(j)
        ELSE 0

\* The same, passing over the lines that read "0".
TWFirstNonZero(lines, i) ==
    LET hit(k) == /\ i + k <= Len(lines)
                  /\ IsNumLine(lines[i + k])
                  /\ lines[i + k][1] # <<"0">>
    IN  IF \E k \in 1..3 : hit(k)
        THEN CHOOSE k \in 1..3 : hit(k) /\ \A j \in 1..(k - 1) : ~hit(j)
        ELSE 0

\* The record the claim describes for the trade row at line i and the total
\* line at line i + k.
TWProjected(i, k) ==
    LET row == tw.lines[i]
        code == IF row[1] \in DOMAIN tw.name_to_code
                THEN tw.name_to_code[row[1]] ELSE row[1]
    IN  [symbol |-> IF Len(code) = 4 /\ AllIn(code, Digits)
                    THEN code \o <<".", "TW">> ELSE code,
         trade_type |-> IF row[2] \in {<<"MaiJin">>, <<"JiMai_B">>,
                                       <<"XianGuMaiJin">>}
                        THEN <<"buy">> ELSE <<"sell">>,
         currency |-> <<"TWD">>,
         shares |-> TWToNum(row[3]),
         price |-> TWToNum(row[4]),
         fee |-> TWToNum(row[6]),
         date |-> IF tw.settle_date.ok THEN tw.settle_date ELSE SomeStr(<<>>),
         total |-> TWToNum(tw.lines[i + k][1])]

TWRecordsOf(i) == {j \in 1..Len(tw.anchors) : tw.anchors[j] = i}

TWYieldsOne(i, k) ==
    /\ Cardinality(TWRecordsOf(i)) = 1
    /\ \A j \in TWRecordsOf(i) : tw.trades[j] = TWProjected(i, k)

\* The record of the specification's example.
TWExampleRecord ==
    [symbol |-> <<"2", "3", "3", "0", ".", "TW">>,
     trade_type |-> <<"buy">>,
     currency |-> <<"TWD">>,
     shares |-> Num(FALSE, 1, 1000, 0),
     price |-> Num(TRUE, 1, 580, 0),
     fee |-> Num(FALSE, 1, 58, 0),
     date |-> SomeStr(D_20250919),
     total |-> Num(FALSE, 1, 579942, 0)]

\* C8 as stated: every line that matches the trade-row pattern with a
\* recognized trade type (its shares and price being numbers) and has a
\* standalone number line among the next 3 lines yields exactly one record,
\* projected as the claim says, its total being that number.
C8_RecordProjection_Original ==
    tw.pc = "done" =>
        \A i \in 1..Len(tw.lines) :
            ( /\ TWRecognized(tw.lines[i])
              /\ TWToNum(tw.lines[i][3]).ok
              /\ TWToNum(tw.lines[i][4]).ok
              /\ TWFirstNumber(tw.lines, i) # 0 )
                => TWYieldsOne(i, TWFirstNumber(tw.lines, i))

\* C8 as amended: the line must be one the scan looks at (it is not passed
\* over or consumed by the lookahead of an earlier row), its name must not be
\* a summary label, its shares and price must parse, and the total is the
\* first standalone number line among the next 3 that does not read "0",
\* which must parse.
C8_RecordProjection ==
    tw.pc = "done" =>
        /\ \A i \in 1..Len(tw.lines) :
            LET k == TWFirstNonZero(tw.lines, i)
            IN  ( /\ i \in tw.seen
                  /\ TWRecognized(tw.lines[i])
                  /\ tw.lines[i][1] \notin SummaryNames
                  /\ TWToNum(tw.lines[i][3]).ok
                  /\ TWToNum(tw.lines[i][4]).ok
                  /\ k # 0
                  /\ TWToNum(tw.lines[i + k][1]).ok )
                => TWYieldsOne(i, k)
        /\ \A i \in 1..Len(tw.lines) :
            ( /\ i \in tw.seen
              /\ tw.lines[i] = TWRowBuy
              /\ <<"TaiJiDian">> \in DOMAIN tw.name_to_code
              /\ tw.settle_date.ok
              /\ i + 2 <= Len(tw.lines)
              /\ tw.lines[i + 1] = TWTextLine
              /\ tw.lines[i + 2] = TWNumLine )
            => \E j \in 1..Len(tw.trades) : tw.trades[j] = TWExampleRecord

\* The specification's example: the row of 台積電 with the code map and the
\* total two lines later, one record.
C8_Witness ==
    /\ tw.pc = "done"
    /\ tw.lines = TWCodeSection \o TWDateHeader
                    \o <<TWRowBuy, TWTextLine, TWNumLine>>
    /\ tw.trades = <<TWExampleRecord>>
    /\ tw.anchors = <<5>>

(***************************************************************************)
(* Claims about the Schwab extractor.                                      *)
(***************************************************************************)
\* Amounts for lines 219-233: a principal or a total below, at and above
\* zero, and a fee.
SignAmounts ==
    {Num(TRUE, -1, 1505, 6700), Num(TRUE, -1, 0, 100), Num(TRUE, 1, 0, 0),
     Num(TRUE, 1, 0, 100), Num(TRUE, 1, 1505, 0)}
SignFees == {None, Num(TRUE, 1, 0, 6700), Num(TRUE, 1, 2000, 0)}

SignHolds(action, total) ==
    /\ action = <<"buy">> => total.ok /\ ~NumGt0(total)
    /\ action = <<"sell">> => total.ok /\ ~NumLt0(total)

\* The total lines 219-233 give for a row with this total and principal.
SignedTotal(action, total, principal, fee) ==
    CashSign(action,
             AmountOf([NoRowNumbers EXCEPT !.total = total,
                                           !.principal = principal],
                      action, IF fee.ok THEN fee ELSE Num(TRUE, 1, 0, 0)))

\* C2: every record the Schwab extractor emits with trade_type buy has a
\* total that is not above zero, and every record with trade_type sell has a
\* total that is not below zero; the same holds of lines 219-233 for every
\* sample total (parsed) and every sample principal and fee (total derived).
C2_CashSign ==
    /\ \A j \in 1..Len(sw.records) :
          SignHolds(sw.records[j].trade_type, sw.records[j].total)
    /\ \A action \in {<<"buy">>, <<"sell">>}, fee \in SignFees :
          /\ \A total \in SignAmounts, principal \in SignAmounts \cup {None} :
                SignHolds(action, SignedTotal(action, total, principal, fee))
          /\ \A principal \in SignAmounts :
                SignHolds(action, SignedTotal(action, None, principal, fee))

\* A sell whose parsed total was below zero is emitted with the total above
\* zero, and a buy whose parsed total was above zero with the total below.
C2_Witness ==
    /\ sw.pc = "done"
    /\ \E j \in 1..Len(sw.records) :
          /\ sw.records[j].trade_type = <<"sell">>
          /\ NumLt0(ParseWindow(sw.text, sw.matches[sw.anchors[j]]).rn.total)
          /\ NumGt0(sw.records[j].total)
    /\ \E text \in SWTexts :
          \E r \in Range(ParseBody(text)) :
              r.trade_type = <<"buy">> /\ NumLt0(r.total)

(***************************************************************************)
(* Claims about the parse() loops.                                         *)
(***************************************************************************)
Rows == batch.all_rows

\* C1: every record any of the three extractors emits has shares, a price
\* and a total that are not None.
C1_RequiredFields ==
    \A j \in 1..Len(Rows) :
        Rows[j].shares.ok /\ Rows[j].price.ok /\ Rows[j].total.ok

\* The records parse() is to take from one document: none from a file it
\* passes over and none from one that fails.
DocRecords(parser, doc) ==
    IF doc.kind \notin {"pdf", "body"} THEN <<>>
    ELSE IF parser = "TW" THEN TWParseLines(doc.pages[1].lines)
    ELSE IF parser = "US" THEN USParseSinglePdf(doc, 1)
    ELSE ParseBody(doc.text)

Concatenated(parser, docs) ==
    Flatten([d \in 1..Len(docs) |-> DocRecords(parser, docs[d])])

\* <<file, page, anchor>> a comes before b.
OriginBefore(a, b) ==
    \/ a[1] < b[1]
    \/ a[1] = b[1] /\ a[2] < b[2]
    \/ a[1] = b[1] /\ a[2] = b[2] /\ a[3] < b[3]

\* C3: the list parse() returns is the concatenation, in document order, of
\* the records of each document, and the rows follow one another in the
\* order of their documents and, within a document, of their anchors: no
\* row is moved, repeated or set between the rows of another document.
C3_BatchOrdering ==
    batch.pc = "done" =>
        /\ batch.ret = Concatenated(batch.parser, batch.docs)
        /\ Len(batch.origins) = Len(batch.ret)
        /\ \A j, k \in 1..Len(batch.origins) :
              j < k => OriginBefore(batch.origins[j], batch.origins[k])

\* A batch of two documents has been returned, the first giving two records
\* and the second at least one.
C3_Witness ==
    /\ batch.pc = "done"
    /\ Len(batch.docs) = 2
    /\ Len(DocRecords(batch.parser, batch.docs[1])) = 2
    /\ Len(DocRecords(batch.parser, batch.docs[2])) >= 1
    /\ DocRecords(batch.parser, batch.docs[1])
           # DocRecords(batch.parser, batch.docs[2])
    /\ Len(batch.ret) >= 3

\* C4: no exception leaves parse(): a document whose parsing fails gives no
\* records, and the records of the other documents are returned.
C4_FailureIsolation ==
    /\ batch.pc # "raised"
    /\ batch.pc = "done" => batch.ret = Concatenated(batch.parser, batch.docs)

\* YYYY/MM/DD
IsCanonicalDate(t) ==
    /\ Len(t) = 10
    /\ \A k \in {1, 2, 3, 4, 6, 7, 9, 10} : t[k] \in Digits
    /\ t[5] = "/" /\ t[8] = "/"

\* C9: the date of every record any of the three extractors emits is the
\* empty string or a string of the form YYYY/MM/DD; it is never None and
\* never a raw token.
C9_CanonicalDate ==
    \A j \in 1..Len(Rows) :
        /\ Rows[j].date.ok
        /\ Rows[j].date.s = <<>> \/ IsCanonicalDate(Rows[j].date.s)

\* C10: the trade_type of every record any of the three extractors emits is
\* one of buy, sell, dividend, other.
C10_TradeTypeEnum ==
    \A j \in 1..Len(Rows) :
        Rows[j].trade_type \in {<<"buy">>, <<"sell">>, <<"dividend">>,
                                <<"other">>}

(***************************************************************************)
(* Claims about the Schwab normalizers.                                    *)
(***************************************************************************)
HasDigit(t) == \E k \in 1..Len(t) : t[k] \in Digits

\* The numeral of a money token: what is left without a currency symbol at
\* its start and a CR or DR marker at its end.
MoneyCore(t) ==
    SubSeq(t, IF t # <<>> /\ t[1] = "$" THEN 2 ELSE 1,
           IF t # <<>> /\ t[Len(t)] \in {"CR", "DR"} THEN Len(t) - 1 ELSE Len(t))

\* Digits and thousands separators, a digit first, with at most one point,
\* after which only digits stand.
IsMoneyNumeral(c) ==
    /\ c # <<>> /\ c[1] \in Digits
    /\ AllIn(c, Digits \cup {",", "."})
    /\ IndexOf(c, ".") # 0 =>
          AllIn(SubSeq(c, IndexOf(c, ".") + 1, Len(c)), Digits)

MoneyValue(c) ==
    IF IndexOf(c, ".") = 0 THEN Num(TRUE, 1, DigitsVal(Remove(c, ",")), 0)
    ELSE Num(TRUE, 1,
             DigitsVal(Remove(SubSeq(c, 1, IndexOf(c, ".") - 1), ",")),
             FracVal(SubSeq(c, IndexOf(c, ".") + 1, Len(c))))

\* C11: money parse returns the value of a numeral whatever its thousands
\* separators, leading currency symbol and CR/DR marker, the negated value
\* when the token is wrapped in parentheses, 0.0 for the token N/A, and
\* None for a token that is not a number (here: one without any digit).
C11_MoneyParse ==
    (norm.pc = "done" /\ norm.fn = "to_money") =>
        /\ IsMoneyNumeral(MoneyCore(norm.arg)) =>
              norm.money = MoneyValue(MoneyCore(norm.arg))
        /\ (InParens(norm.arg) /\ IsMoneyNumeral(MoneyCore(Inner(norm.arg)))) =>
              norm.money = NumNeg(MoneyValue(MoneyCore(Inner(norm.arg))))
        /\ norm.arg = NA => norm.money = Num(TRUE, 1, 0, 0)
        /\ (~HasDigit(norm.arg) /\ ~IsNA(norm.arg)) => ~norm.money.ok

\* The parts of a string between its slashes.
RECURSIVE SplitSlash(_)
SplitSlash(t) ==
    IF IndexOf(t, "/") = 0 THEN <<t>>
    ELSE <<SubSeq(t, 1, IndexOf(t, "/") - 1)>>
             \o SplitSlash(SubSeq(t, IndexOf(t, "/") + 1, Len(t)))

IsNumeral(part, lens) == Len(part) \in lens /\ AllIn(part, Digits)

\* M/D/Y with a year of one of the given numbers of digits.
IsMDY(t, ylens) ==
    /\ Len(SplitSlash(t)) = 3
    /\ IsNumeral(SplitSlash(t)[1], {1, 2})
    /\ IsNumeral(SplitSlash(t)[2], {1, 2})
    /\ IsNumeral(SplitSlash(t)[3], ylens)

MonthOf(t) == DigitsVal(SplitSlash(t)[1])
DayOf(t) == DigitsVal(SplitSlash(t)[2])
YearOf(t) == DigitsVal(SplitSlash(t)[3])

CalendarDays(m, y) ==
    CASE m \in {1, 3, 5, 7, 8, 10, 12} -> 31
      [] m \in {4, 6, 9, 11} -> 30
      [] OTHER -> IF y % 400 = 0 \/ (y % 4 = 0 /\ y % 100 # 0) THEN 29 ELSE 28

IsCalendarDate(y, m, d) ==
    y \in 1..9999 /\ m \in 1..12 /\ d \in 1..CalendarDays(m, y)

\* A valid date written MM/DD/YY, the year read as 2000 + YY.
ValidShort(t) ==
    IsMDY(t, {2}) /\ IsCalendarDate(2000 + YearOf(t), MonthOf(t), DayOf(t))

\* A valid date written MM/DD/YYYY.
ValidLong(t) ==
    IsMDY(t, {4}) /\ IsCalendarDate(YearOf(t), MonthOf(t), DayOf(t))

DigitOf(v) == CHOOSE c \in Digits : DigitVal(c) = v

\* The last n decimal digits of v, zeros in front.
Padded(v, n) == [k \in 1..n |-> DigitOf((v \div Pow10(n - k)) % 10)]

\* YYYY/MM/DD
Canonical(y, m, d) ==
    Padded(y, 4) \o <<"/">> \o Padded(m, 2) \o <<"/">> \o Padded(d, 2)

\* What C12 says of the dates it names valid.
DatesNormalized ==
    /\ (norm.arg.ok /\ ValidShort(norm.arg.s)) =>
          norm.date = SomeStr(Canonical(2000 + YearOf(norm.arg.s),
                                        MonthOf(norm.arg.s), DayOf(norm.arg.s)))
    /\ (norm.arg.ok /\ ValidLong(norm.arg.s) /\ YearOf(norm.arg.s) >= 2000) =>
          norm.date = SomeStr(Canonical(YearOf(norm.arg.s),
                                        MonthOf(norm.arg.s), DayOf(norm.arg.s)))

\* No valid date in either format, even with its white space taken out.
NotADate(t) == ~ValidShort(Remove(t, " ")) /\ ~ValidLong(Remove(t, " "))

\* C12 as stated: a valid MM/DD/YY gives YYYY/MM/DD with the year 2000 + YY,
\* a valid MM/DD/YYYY of the year 2000 or later gives the same date, and
\* every input that is no valid date in either format is returned unchanged.
C12_DateNormalization_Original ==
    (norm.pc = "done" /\ norm.fn = "normalize_date") =>
        /\ DatesNormalized
        /\ (norm.arg.ok /\ NotADate(norm.arg.s)) => norm.date = norm.arg
        /\ ~norm.arg.ok => norm.date = NoDate

\* C12 as amended: an input that is no valid date in either format is
\* returned with the white space at its ends removed, and the empty string,
\* like None, gives None.
C12_DateNormalization ==
    (norm.pc = "done" /\ norm.fn = "normalize_date") =>
        /\ DatesNormalized
        /\ (norm.arg.ok /\ norm.arg.s # <<>> /\ NotADate(norm.arg.s)) =>
              norm.date = SomeStr(Strip(norm.arg.s))
        /\ (~norm.arg.ok \/ norm.arg.s = <<>>) => norm.date = NoDate

\* The specification's example: 9/6/25 gives 2025/09/06.
C12_Witness ==
    /\ norm.pc = "done" /\ norm.fn = "normalize_date"
    /\ norm.arg = SomeStr(D_9_6_25)
    /\ norm.date = SomeStr(<<"2", "0", "2", "5", "/", "0", "9", "/", "0", "6">>)

\* ROOT EXPIRY STRIKE C|P: a root of letters, digits, points and hyphens, an
\* expiry M/D/Y with a year of 2 to 4 digits, a strike of digits and commas
\* with up to four decimals, and the letter C or P in either case.
IsOptionDescription(toks) ==
    /\ Len(toks) = 4
    /\ toks[1] # <<>>
    /\ \A k \in 1..Len(toks[1]) : toks[1][k] \notin (Punct \ {".", "-"})
    /\ IsMDY(toks[2], {2, 3, 4})
    /\ IsMoneyNumeral(toks[3]) \/ (toks[3] # <<>> /\ AllIn(toks[3], {","}))
    /\ IndexOf(toks[3], ".") # 0 => Len(toks[3]) - IndexOf(toks[3], ".") \in 1..4
    /\ toks[4] \in {<<"C">>, <<"P">>, <<"c">>, <<"p">>}

\* The expiry and the strike of an option description can be parsed.
OptionParses(toks) ==
    /\ ValidShort(toks[2]) \/ ValidLong(toks[2])
    /\ HasDigit(toks[3])

\* round(strike * 1000) of a strike numeral.
StrikeRounded(c) ==
    MoneyValue(c).w * 1000 + (MoneyValue(c).f \div 10)
        + (IF \/ MoneyValue(c).f % 10 > 5
              \/ (MoneyValue(c).f % 10 = 5 /\ (MoneyValue(c).f \div 10) % 2 = 1)
           THEN 1 ELSE 0)

\* ROOT in capitals, YYMMDD, the letter in capitals, 8 digits.
OptionSymbol(toks) ==
    [k \in 1..Len(toks[1]) |-> Upper(toks[1][k])]
        \o Padded(YearOf(toks[2]), 2) \o Padded(MonthOf(toks[2]), 2)
        \o Padded(DayOf(toks[2]), 2)
        \o <<Upper(toks[4][1])>>
        \o Padded(StrikeRounded(toks[3]), 8)

\* C13: a description ROOT EXPIRY STRIKE C|P whose expiry and strike parse is
\* turned into ROOT in capitals, the expiry as YYMMDD, the call/put letter
\* and round(strike * 1000) as exactly 8 digits, zeros in front, so that the
\* symbol is 15 characters longer than ROOT and its last 8 digits read that
\* number; every other description is returned as it is.
C13_OptionSymbol ==
    (norm.pc = "done" /\ norm.fn = "normalize_symbol") =>
        IF IsOptionDescription(norm.arg) /\ OptionParses(norm.arg)
        THEN /\ norm.symbol = OptionSymbol(norm.arg)
             /\ CharLen(norm.symbol) = CharLen(norm.arg[1]) + 15
             /\ StrikeRounded(norm.arg[3]) < Pow10(8)
        ELSE norm.symbol = JoinSp(norm.arg)

(***************************************************************************)
(* Claims about the Schwab windows.                                        *)
(***************************************************************************)
\* The matches the loop has been through.
SWProcessed == IF sw.pc \in {"loop", "done"} THEN 1..(sw.k - 1) ELSE {}

\* The records read from the j-th match.
SWRecordsAt(j) == {n \in 1..Len(sw.anchors) : sw.anchors[n] = j}

SWWindowAt(j) == Window(sw.text, sw.matches[j].start)
SWSymbolAt(j) == NormalizeSymbol(sw.matches[j].sym)
SWRowNumbersAt(j) == ExtractRowNumbers(SWWindowAt(j))

Unresolved(x) == ~x.ok

\* What C14 asks of the window of the j-th match with the row numbers rn.
GatedAt(j, rn) ==
    /\ Cardinality(SWRecordsAt(j)) <= 1
    /\ SWRecordsAt(j) # {} =>
          /\ SWSymbolAt(j) # <<>>
          /\ ~Unresolved(rn.qty) /\ ~Unresolved(rn.price)
          /\ ~Unresolved(rn.total) \/ ~Unresolved(rn.principal)
          /\ \A n \in SWRecordsAt(j) :
                /\ sw.records[n].symbol = SWSymbolAt(j)
                /\ sw.records[n].shares = rn.qty
                /\ sw.records[n].price = rn.price
    /\ ~Emits(SWSymbolAt(j), [rn EXCEPT !.total = None, !.principal = None])

\* C14: a window opened by a "Symbol:" match gives at most one record, and
\* gives one only if its symbol is not empty, its quantity and its price are
\* resolved and its total or its principal is resolved; with neither total
\* nor principal the window gives no record.
C14_SchwabGating ==
    \A j \in SWProcessed : GatedAt(j, SWRowNumbersAt(j))

\* A text of two windows, the first without a record for want of a
\* quantity, the second with its record.
C14_Witness ==
    /\ sw.pc = "done" /\ Len(sw.matches) = 2
    /\ SWRecordsAt(1) = {} /\ SWSymbolAt(1) # <<>>
    /\ Unresolved(SWRowNumbersAt(1).qty) /\ ~Unresolved(SWRowNumbersAt(1).price)
    /\ SWRecordsAt(2) = {1}

(***************************************************************************)
(* Claims about the Cathay-TW lookahead.                                   *)
(***************************************************************************)
\* A standalone signed number with a non-zero value: a line of one token, an
\* optional minus sign before digits and commas, that reads as a number
\* other than 0.
IsNonZeroNumber(line) ==
    /\ IsNumLine(line)
    /\ HasDigit(line[1])
    /\ TWToNum(line[1]).ok
    /\ TWToNum(line[1]).w # 0

\* The offset of the first such line among the 3 lines after line i, 0 when
\* there is none.
TWTotalOffset(lines, i, k) ==
    IF k > 3 \/ i + k > Len(lines) THEN 0
    ELSE IF IsNonZeroNumber(lines[i + k]) THEN k
    ELSE IF k = 3 THEN 0
    ELSE IF i + k + 1 <= Len(lines) /\ IsNonZeroNumber(lines[i + k + 1])
    THEN k + 1
    ELSE IF k = 1 /\ i + 3 <= Len(lines) /\ IsNonZeroNumber(lines[i + 3])
    THEN 3
    ELSE 0

\* The trade rows the scan accepts: it looks at the line, the line matches
\* the pattern with a recognized trade type and is no summary row.
TWAccepted(i) ==
    /\ i \in tw.seen
    /\ TWRecognized(tw.lines[i])
    /\ tw.lines[i][1] \notin SummaryNames

\* What C15 says of the accepted row at line i whose total line is k lines
\* after it (k = 0: there is none).
TWLookahead(i, k) ==
    IF k # 0
    THEN /\ (i + k) \notin tw.seen
         /\ (TWToNum(tw.lines[i][3]).ok /\ TWToNum(tw.lines[i][4]).ok) =>
               /\ Cardinality(TWRecordsOf(i)) = 1
               /\ \A j \in TWRecordsOf(i) :
                     tw.trades[j].total = TWToNum(tw.lines[i + k][1])
    ELSE /\ TWRecordsOf(i) = {}
         /\ i + 1 <= Len(tw.lines) => (i + 1) \in tw.seen

\* C15: the total of an accepted trade row at line i is the first line among
\* i+1, i+2, i+3 that is a standalone signed number with a non-zero value;
\* the scan never looks at that line as a trade row; no emitted total is 0;
\* without such a line the row gives no record and the scan goes on at
\* line i+1.
C15_TotalLookahead ==
    tw.pc = "done" =>
        /\ \A i \in 1..Len(tw.lines) :
              TWAccepted(i) => TWLookahead(i, TWTotalOffset(tw.lines, i, 1))
        /\ \A j \in 1..Len(tw.trades) :
              tw.trades[j].total.w # 0 \/ tw.trades[j].total.f # 0

(***************************************************************************)
(* Claims about the Cathay-US groups of 3 lines.                           *)
(***************************************************************************)
\* The cursor is at a line.
USAtLine == us.pc = "scan" /\ us.i <= Len(us.lines)

\* Row B as C16 states it: the line after the reference line when the
\* reference line has at least 2 lines after it, no row B otherwise.
USRowBOfFullGroup ==
    IF us.i + 2 <= Len(us.lines) THEN USParseRowB(us.lines[us.i + 1])
    ELSE USNoRowB

\* Row B as amended: the line after the reference line when there is one.
USRowBWhenPresent ==
    IF us.i + 1 <= Len(us.lines) THEN USParseRowB(us.lines[us.i + 1])
    ELSE USNoRowB

\* A step of the scan from a line: at a reference line one projection from
\* row A and the row B given is added and the cursor moves by 3, elsewhere
\* nothing is added and the cursor moves by 1.
USGroupStep(B) ==
    USAtLine =>
        IF StartsWithRef(us.lines[us.i])
        THEN /\ us'.i = us.i + 3
             /\ us'.recs = Append(us.recs,
                                  USProjectRow(USParseRowA(us.lines[us.i]), B))
             /\ us'.anchors = Append(us.anchors, us.i)
        ELSE /\ us'.i = us.i + 1
             /\ us'.recs = us.recs
             /\ us'.anchors = us.anchors

\* C16 as stated: the groups are of 3 lines, and a reference line with fewer
\* than 2 lines after it is projected from row A alone.
C16_ThreeLineGroups_Original == [][USGroupStep(USRowBOfFullGroup)]_vars

\* C16 as amended: the groups are of 3 lines; a reference line with exactly
\* one line after it is projected from row A and that line as row B, and
\* only a reference line that ends the page is projected from row A alone.
C16_ThreeLineGroups == [][USGroupStep(USRowBWhenPresent)]_vars

\* A page of two lines, a reference line and its row B, has been scanned:
\* one record, with the trade type and the shares of row B.
C16_Witness ==
    /\ us.pc = "scan" /\ us.i = 4
    /\ us.lines = <<USRowA, USRowB>>
    /\ Len(us.recs) = 1
    /\ us.recs[1].trade_type = <<"buy">>
    /\ us.recs[1].shares.ok

\* The third lines of the groups the scan went through.
USRowCLines == {a + 2 : a \in {us.anchors[n] : n \in 1..Len(us.anchors)}}
                   \cap 1..Len(us.lines)

\* C17: whatever stands in the third line of a group, the records returned
\* are the same.
C17_RowCNonInterference ==
    us.pc = "done" =>
        \A c \in USRowCLines : \A line \in USSampleLines :
            USParseLines([us.lines EXCEPT ![c] = line]) = us.out

\* A page whose third line is itself a reference line: it is the row C of
\* the group, and the page gives the one record of its first two lines.
C17_Witness ==
    /\ us.pc = "done"
    /\ us.lines = <<USRowA, USRowB, USRowA>>
    /\ USRowCLines = {3}
    /\ Len(us.out) = 1

(***************************************************************************)
(* Claims about the Schwab action and fee.                                 *)
(***************************************************************************)
\* Where the buy words and the sell words stand in the window of match j.
SWBuysAt(j) == WordPositions(SWWindowAt(j), BuyWords)
SWSellsAt(j) == WordPositions(SWWindowAt(j), SellWords)

\* The first of the positions S stands before every position of T.
FirstBefore(S, T) ==
    \E a \in S : \A b \in T : a[1] < b[1] \/ (a[1] = b[1] /\ a[2] < b[2])

\* The side C18 gives the window of match j, <<>> when it gives none.
SWSideAt(j) ==
    CASE SWBuysAt(j) # {} /\ SWSellsAt(j) = {} -> <<"buy">>
      [] SWBuysAt(j) = {} /\ SWSellsAt(j) # {} -> <<"sell">>
      [] SWBuysAt(j) = {} /\ SWSellsAt(j) = {} -> <<>>
      [] OTHER -> IF FirstBefore(SWBuysAt(j), SWSellsAt(j))
                  THEN <<"buy">> ELSE <<"sell">>

\* C18: a window with buy words only is a buy, one with sell words only a
\* sell, one with both the side whose first word stands first, and one with
\* neither has no side: its record has an empty trade_type and its total as
\* it was read, without sign normalization.
C18_ActionResolution ==
    \A j \in SWProcessed : \A n \in SWRecordsAt(j) :
        /\ sw.records[n].trade_type = SWSideAt(j)
        /\ (SWSideAt(j) = <<>> /\ SWRowNumbersAt(j).total.ok) =>
              sw.records[n].total = SWRowNumbersAt(j).total

\* A window that reads "Sell to cover purchase" and has no other buy or sell
\* word: both kinds of word, the sell word first, and a sell is recorded.
C18_Witness ==
    /\ sw.pc = "done" /\ Len(sw.matches) = 1
    /\ SWRecordsAt(1) = {1}
    /\ Cardinality(SWBuysAt(1)) = 1 /\ Cardinality(SWSellsAt(1)) = 1
    /\ FirstBefore(SWSellsAt(1), SWBuysAt(1))
    /\ sw.records[1].trade_type = <<"sell">>

\* The label stands in w with its colon at the end of token j.
LabelEndsAt(w, j, label) ==
    /\ j >= Len(label)
    /\ Len(w[j]) >= 2 /\ w[j][Len(w[j])] = ":"
    /\ Lower(w[j][Len(w[j]) - 1]) = label[Len(label)]
    /\ \A k \in 1..(Len(label) - 1) :
          Lower(w[j - Len(label) + k][Len(w[j - Len(label) + k])]) = label[k]

\* The amount after the colon that ends token j: an amount of two decimals
\* when whole is TRUE, an amount as line 288 matches it otherwise; <<>>
\* without one.
AmountAfter(w, j, whole) ==
    IF j + 1 > Len(w) THEN <<>>
    ELSE IF whole THEN AmountPrefix(w[j + 1])
    ELSE ComponentAmountPrefix(w[j + 1])

\* The amounts of the tokens js of w, in the order of the text.
RECURSIVE AmountsAt(_, _, _)
AmountsAt(w, js, whole) ==
    IF js = {} THEN <<>>
    ELSE AmountsAt(w, js \ {MaxOf(js)}, whole)
             \o <<AmountAfter(w, MaxOf(js), whole)>>

\* The tokens of w where the label ends and an amount follows.
LabelHits(w, label, whole) ==
    {j \in 1..Len(w) : LabelEndsAt(w, j, label) /\ AmountAfter(w, j, whole) # <<>>}

\* The amounts of two decimals that follow the fee labels in w, label by
\* label.
ComponentAmounts(w) ==
    Flatten([l \in 1..Len(FeeLabels) |->
                AmountsAt(w, LabelHits(w, FeeLabels[l], TRUE), TRUE)])

\* The fee C19 gives the window w with the row numbers rn.
FeeByPrecedence(w, rn) ==
    IF ExplicitTotal(w) # <<>> THEN PyFloat(Remove(ExplicitTotal(w), ","))
    ELSE IF ComponentAmounts(w) # <<>> THEN SumAmounts(ComponentAmounts(w))
    ELSE IF rn.total.ok /\ rn.principal.ok
    THEN NumRound2(NumSub(NumAbs(rn.total), NumAbs(rn.principal)))
    ELSE Num(TRUE, 1, 0, 0)

\* C19: the fee of a record is the explicit "Charge and/or Interest ...
\* Total:" value of its window when there is one; else the sum of the amounts
\* of the fee components found in the window; else, when total and principal
\* are both known, round(|total| - |principal|, 2); else 0.
C19_FeePrecedence ==
    \A j \in SWProcessed : \A n \in SWRecordsAt(j) :
        sw.records[n].fee = FeeByPrecedence(SWWindowAt(j), SWRowNumbersAt(j))

\* The occurrences of fee components in w that line 288 matches, whatever
\* the labels that end there.
ComponentOccurrences(w) ==
    UNION {LabelHits(w, FeeLabels[l], FALSE) : l \in 1..Len(FeeLabels)}

\* C20: without an explicit total, the fee summed from the components of a
\* window counts each occurrence of a component once, also where one label
\* holds another ("Options Regulatory Fee" holds "Regulatory Fee").
C20_ComponentsOnce ==
    \A j \in SWProcessed : \A n \in SWRecordsAt(j) :
        (ExplicitTotal(SWWindowAt(j)) = <<>>
            /\ ComponentOccurrences(SWWindowAt(j)) # {}) =>
            sw.records[n].fee =
                SumAmounts(AmountsAt(SWWindowAt(j),
                                     ComponentOccurrences(SWWindowAt(j)), FALSE))

(***************************************************************************)
(* Claims about the clusterer's join rule.                                 *)
(***************************************************************************)
\* The distance of top to the mean y is strictly less than the row
\* tolerance: 3 for Cathay-TW, 2.5 for Cathay-US.
Closer(variant, y, top) ==
    IF variant = "TW" THEN Abs(y.num - top * y.den) < RowTolTW * y.den
    ELSE Abs(y.num - top * y.den) * YTolDen < YTolNum * y.den

\* The rows whose mean is closer to top than the tolerance.
CloserRows(variant, rows, top) ==
    {r \in 1..Len(rows) : Closer(variant, rows[r].y, top)}

\* The mean y is (old * n + top) / (n + 1).
IsUpdatedMean(y, old, n, top) ==
    y.num * (old.den * (n + 1)) = (old.num * n + top * old.den) * y.den

\* after is before with w joined to row r.
JoinedAt(before, after, r, w) ==
    /\ Len(after) = Len(before)
    /\ after[r].words = Append(before[r].words, w)
    /\ IsUpdatedMean(after[r].y, before[r].y, before[r].n, w.top)
    /\ \A q \in 1..Len(before) : q # r => after[q] = before[q]

\* after is before with a new row of w alone at its end.
StartedRow(before, after, w) ==
    /\ Len(after) = Len(before) + 1
    /\ after[Len(after)].words = <<w>>
    /\ after[Len(after)].y.num = w.top * after[Len(after)].y.den
    /\ \A q \in 1..Len(before) : after[q] = before[q]

JoinRuleStep(w) ==
    IF CloserRows(cluster.variant, cluster.rows, w.top) # {}
    THEN JoinedAt(cluster.rows, cluster'.rows,
                  MinOf(CloserRows(cluster.variant, cluster.rows, w.top)), w)
    ELSE StartedRow(cluster.rows, cluster'.rows, w)

\* C21: a fragment joins the first row, in creation order, whose running
\* mean differs from the fragment's top by strictly less than the row
\* tolerance, the row's mean becoming (old_mean * n + top) / (n + 1); a
\* fragment at a distance of the tolerance or more from every row's mean
\* starts a new row.
C21_JoinRule ==
    [][(cluster.pc = "place" /\ cluster.k <= Len(cluster.order))
          => JoinRuleStep(cluster.order[cluster.k])]_vars

(***************************************************************************)
(* Claims about the line scans.                                            *)
(***************************************************************************)
\* An iteration of either scan moves the cursor forward: by 1 to 4 lines in
\* the Cathay-TW scan, by 1 or 3 lines in the Cathay-US scan.
ScanAdvances ==
    /\ tw'.iters # tw.iters =>
          /\ tw'.iters = tw.iters + 1
          /\ tw'.i - tw.i \in 1..4
    /\ us'.iters # us.iters =>
          /\ us'.iters = us.iters + 1
          /\ us'.i - us.i \in {1, 3}

\* Neither scan has run for more iterations than there are lines.
ScanBounded ==
    /\ tw.iters <= Len(tw.lines)
    /\ us.iters <= Len(us.lines)

\* A scan is running.
ScanRunning == tw.pc \in {"start", "scan"} \/ us.pc = "scan"

\* A scan has returned.
ScanEnded == tw.pc = "done" \/ us.pc = "done"

\* C22: the Cathay-TW scan and the Cathay-US page scan terminate for every
\* line sequence; every iteration moves the cursor forward, by 1 to 4 lines
\* for TW and by 1 or 3 lines for US, and there are at most as many
\* iterations as lines.
C22_ScanTermination ==
    /\ [][ScanAdvances]_vars
    /\ []ScanBounded
    /\ ScanRunning ~> ScanEnded

\* A Cathay-TW scan that has returned after an iteration that moved the
\* cursor by 4 lines: a trade row whose total is the third line after it.
C22_Witness ==
    /\ tw.pc = "done"
    /\ Len(tw.lines) = 4 /\ tw.iters = 1
    /\ tw.anchors = <<1>>

(***************************************************************************)
(* Claim about the lines between a Cathay-TW trade row and its total.      *)
(***************************************************************************)
\* The cursor is at a trade row the scan accepts.
TWAtAcceptedRow ==
    /\ TWLoopCondition
    /\ TWRecognized(tw.lines[tw.i])
    /\ tw.lines[tw.i][1] \notin SummaryNames

\* The lines strictly between the row at line i and its total at i + k.
TWBetween(i, k) == (i + 1)..(i + k - 1)

\* A line that would be accepted as a trade row if the scan looked at it.
TWAcceptable(line) == TWRecognized(line) /\ line[1] \notin SummaryNames

\* The iteration on an accepted row whose total is found k lines on moves
\* the cursor to i + k + 1.
TWResumesPastTotal ==
    (TWAtAcceptedRow /\ LookaheadOffset(tw.lines, tw.i) # 0)
       => tw'.i = tw.i + LookaheadOffset(tw.lines, tw.i) + 1

\* After the scan, the lines between an accepted row and its total were
\* never looked at as s = lines[i] and no record was read from them.
TWBetweenUnexamined ==
    tw.pc = "done" =>
        \A i \in 1..Len(tw.lines) :
           (TWAccepted(i) /\ LookaheadOffset(tw.lines, i) # 0) =>
              \A j \in TWBetween(i, LookaheadOffset(tw.lines, i)) :
                 j \notin tw.seen /\ TWRecordsOf(j) = {}

\* C23: when the lookahead finds the total of the accepted row at line i at
\* line i+k (k in 1..3), the scan resumes at line i+k+1; the k-1 lines in
\* between are never examined as trade rows and give no record, even when
\* they match the trade-row pattern with a recognized trade type.
C23_LookaheadSkips == [][TWResumesPastTotal]_vars /\ []TWBetweenUnexamined

\* A scan that returned after it passed over a line that matches the
\* trade-row pattern with a recognized type, lying between a row that gave
\* a record and the total of that row.
C23_Witness ==
    /\ tw.pc = "done"
    /\ \E i \in 1..Len(tw.lines) :
          /\ TWAccepted(i)
          /\ TWRecordsOf(i) # {}
          /\ LookaheadOffset(tw.lines, i) >= 2
          /\ \E j \in TWBetween(i, LookaheadOffset(tw.lines, i)) :
                TWAcceptable(tw.lines[j]) /\ j \notin tw.seen

(***************************************************************************)
(* Claims about the numbers of a Schwab row.                               *)
(***************************************************************************)
\* _extract_row_numbers gives a total whenever it gives a price or a
\* principal.
SWTotalWithNumbers(rn) == (rn.price.ok \/ rn.principal.ok) => rn.total.ok

\* a and b are the same number up to its sign.
SameUpToSign(a, b) == a.ok /\ b.ok /\ NumAbs(a) = NumAbs(b)

\* C24: whenever _extract_row_numbers returns a price or a principal it
\* returns a total too, so that the total of a record is never derived from
\* the principal and the fee: the total of every emitted record is the
\* parsed total up to its sign.
C24_ParsedTotal ==
    \A j \in SWProcessed :
       /\ SWTotalWithNumbers(SWRowNumbersAt(j))
       /\ \A n \in SWRecordsAt(j) :
             SameUpToSign(sw.records[n].total, SWRowNumbersAt(j).total)

\* A record read from a row whose principal and whose last token are not
\* readable as money: the total is the last readable token, with the sign
\* of a buy.
C24_Witness ==
    \E j \in SWProcessed :
       /\ ~SWRowNumbersAt(j).principal.ok
       /\ SWRowNumbersAt(j).price.ok
       /\ SWRowNumbersAt(j).total = Num(TRUE, 1, 249, 3500)
       /\ \E n \in SWRecordsAt(j) :
             sw.records[n].total = Num(TRUE, -1, 249, 3500)

\* A number that is not below zero.
NonNegative(a) == a.ok /\ ~NumLt0(a)

\* C25: the fee of every emitted Schwab record is a number, never null,
\* that is greater than or equal to 0, for buys and for sells, whether it
\* was read from the explicit total, summed from the components, derived
\* from |total| - |principal|, or defaulted to 0.0.
C25_FeeNonNegative ==
    \A n \in 1..Len(sw.records) : NonNegative(sw.records[n].fee)

(***************************************************************************)
(* Claim about the century shift of the Schwab date normalizer.            *)
(***************************************************************************)
\* The year strptime reads from M/D/Y: two digits up to 68 are 20YY, from
\* 69 on 19YY; four digits are the year.
ParsedYear(t) ==
    IF IsMDY(t, {2})
    THEN (IF YearOf(t) <= 68 THEN 2000 + YearOf(t) ELSE 1900 + YearOf(t))
    ELSE YearOf(t)

\* A string that strptime parses, in either format, to a date before 2000.
ParsedBefore2000(t) ==
    /\ IsMDY(t, {2, 4})
    /\ IsCalendarDate(ParsedYear(t), MonthOf(t), DayOf(t))
    /\ ParsedYear(t) < 2000

\* The year of a string of the form YYYY/MM/DD.
CanonicalYear(t) == DigitsVal(SubSeq(t, 1, 4))

\* C26: _normalize_date never returns a string of the form YYYY/MM/DD whose
\* year is below 2000, and every date parsed with a year y below 2000, from
\* four digits as well as from two, is returned with the year y + 100.
C26_CenturyShift ==
    (norm.pc = "done" /\ norm.fn = "normalize_date" /\ norm.arg.ok) =>
        /\ (norm.date.ok /\ IsCanonicalDate(norm.date.s)) =>
              CanonicalYear(norm.date.s) >= 2000
        /\ ParsedBefore2000(Strip(norm.arg.s)) =>
              norm.date = SomeStr(Canonical(ParsedYear(Strip(norm.arg.s)) + 100,
                                            MonthOf(Strip(norm.arg.s)),
                                            DayOf(Strip(norm.arg.s))))

====
